---- MODULE Spec2Model ----
(***************************************************************************)
(* Verification model of the shredtop data plane (crate shred-ingest):     *)
(*   - ShredDecoder::run          (decoder.rs)       specification SpecDecoder *)
(*   - FanInSource relay / evict  (fan_in.rs)        specification SpecFanIn   *)
(*   - SourceMetrics lead times   (source_metrics.rs) specification SpecMetrics *)
(*   - ShredRaceTracker           (shred_race.rs)    specification SpecRace    *)
(* Each specification drives one component; the variables of the other     *)
(* components keep their initial values under it.                          *)
(***************************************************************************)
EXTENDS Integers, Naturals, Sequences, FiniteSets, TLC

VARIABLES
    \* ---- ShredDecoder::run locals and the source's decoder counters ----
    slots,            \* HashMap<u64, SlotState>
    fec_sets,         \* HashMap<u64, HashMap<u32, FecSet>>
    highest_slot,     \* u64
    dmetrics,         \* SourceMetrics fields written by the decoder
    decoded_chan,     \* bounded decoder -> fan-in channel (self.tx)
    decoder_pc,       \* "running" | "panicked" (u32 overflow with overflow checks on)
    overflow_checks,  \* build profile: TRUE = arithmetic overflow panics, FALSE = wraps
    nshreds,          \* number of raw shreds taken from self.rx so far
    h_outcomes,       \* history: slot -> the outcome counters incremented for it, in order
    h_evicted,        \* history: the slots whose state the expiry sweep has removed
    h_created,        \* history: slot -> number of SlotState values created for it
    h_recv,           \* history: <<slot, fec_set_index>> -> shreds of the set received while live:
                      \*   p >= 0 the data shred at position p, -(p+1) the coding shred at p
    h_last,           \* history: what the last handled shred did
    h_lastflag,       \* history: the slots for which a data shred carrying the
                      \*   last-in-slot flag was received or recovered
    h_runs,           \* history: <<slot, fec_set_index>> -> number of reconstruct calls
    h_sent,           \* history: slot -> transactions handed to self.tx.try_send since
                      \*   the slot state was last created
    \* ---- SourceMetrics fields written by the fan-in, one record per source ----
    smetrics,         \* source -> [txs_first, txs_duplicate, lead_time_*]
    nrec,             \* number of direct record_lead_time_us calls so far
    h_prev,           \* history: smetrics before the last step
    h_rec,            \* history: the last direct record_lead_time_us call
    \* ---- FanInSource::start: relay threads and eviction thread ----
    dedup,            \* DashMap<[u8; 64], FirstArrival>
    out_chan,         \* bounded fan-in -> consumer channel (out_tx)
    filter_nonempty,  \* whether filter_programs holds a valid pubkey
    fan_now,          \* metrics::now_ns() as the fan-in threads read it
    nfan,             \* number of transactions the relay threads have taken
    h_fan,            \* history: what the last relay step did
    h_credits,        \* history: key -> credits given for it, in order, since start
    h_res,            \* history: key -> credits given since it last entered dedup
    h_firsts,         \* history: key -> recv_ns of its latest first arrival
    \* ---- ShredRaceTracker: processing thread and eviction thread ----
    arrivals,         \* DashMap<(u64, u32), ShredFirstArrival>
    pairs,            \* DashMap<(&str, &str), ShredPairMetrics>
    race_now,         \* metrics::now_ns() as the race threads read it
    nrace,            \* number of arrivals the processing thread has taken
    h_race,           \* history: what the last processed arrival did
    \* ---- ShredReceiver::run: the receive loop and its parser channel ----
    shred_version,    \* Option<u16>: the configured fork-version filter
    shred_chan,       \* bounded receiver -> decoder channel (self.tx), datagram lengths
    shred_rx_alive,   \* whether the receiving end of shred_chan still exists
    shreds_received,  \* SourceMetrics::shreds_received
    bytes_received,   \* SourceMetrics::bytes_received
    shreds_dropped,   \* SourceMetrics::shreds_dropped
    ndatagrams,       \* number of datagrams the receive loop has taken
    h_enqueued,       \* history: number of shreds try_send put on shred_chan
    h_rx,             \* history: what the last datagram did
    \* ---- SourceMetrics::snapshot and the reservoir's history ----
    h_snap,           \* history: the last snapshot taken and the samples held then
    h_samples,        \* history: source -> the samples record_lead_time_us accepted
                      \*   in direct calls, oldest first
    \* ---- parse_data_payload on the bytes of a datagram ----
    wire_bytes,       \* the datagram, a sequence of bytes
    h_built,          \* history: what make_shred built it from, and whether it was
                      \*   altered afterwards
    h_parsed,         \* history: the result of parse_data_payload on wire_bytes
    \* ---- SlotState::try_deserialize on a slot's byte stream ----
    ent_state,        \* a SlotState anchored at index 0 whose buffer the stream extends
    h_ent_txs,        \* history: the transactions its try_deserialize calls returned
    \* ---- RpcSource: the polling baseline source ----
    last_slot,        \* RpcSource.last_slot
    rpc_metrics,      \* the source's SourceMetrics: the counters process_slot writes
    rpc_chan,         \* the source's bounded channel to its relay thread (tx)
    rpc_pc,           \* where run() stands: "poll", "backoff" (500 ms) or "sleep" (100 ms)
    npolls,           \* number of polls made
    h_poll,           \* history: what the last poll saw and did
    h_attempted,      \* history: the slots process_slot was called for, in order
    \* ---- GeyserTxSource: the reconnect loop of the streaming source ----
    conn_pc,          \* "connect", "streaming", "wait" (5 s) or "exited"
    geyser_metrics,   \* the source's SourceMetrics: txs_decoded, txs_emitted
    geyser_chan,      \* the source's bounded channel to its relay thread (tx)
    nends,            \* number of failed connection attempts and ended streams
    nupdates,         \* number of stream messages received
    h_attempts,       \* history: number of connection attempts made
    h_run,            \* history: how the last run_geyser call ended
    \* ---- the threads of one shred source and of the fan-in at shutdown ----
    recv_pc,          \* receiver thread: "running" (holds shred_tx) or "done"
    raw_chan,         \* number of shreds buffered in the raw-shred channel
    decode_pc,        \* decoder thread: "running", "done" or "panicked"
    inner_chan,       \* number of transactions buffered in the source's inner channel
    relay_pc,         \* relay thread: "running" or "done"
    evict_pc,         \* fan-in-evict thread: "sleeping", "retaining" or "done"
    out_count,        \* number of transactions buffered in the output channel
    nfed,             \* number of shreds the receiver has taken from the socket
    \* ---- the locks of the fan-in ----
    lk_owner,         \* lock -> the thread that holds it, or "free"
    lk_th,            \* thread -> where it is, the lock it waits for, the locks it holds
    lk_first          \* signature -> source of its dedup entry

dvars == <<slots, fec_sets, highest_slot, dmetrics, decoded_chan, decoder_pc,
           overflow_checks, nshreds, h_outcomes, h_evicted, h_created, h_recv, h_last,
           h_lastflag, h_runs, h_sent>>

mvars == <<smetrics, nrec, h_prev, h_rec>>

fvars == <<dedup, out_chan, filter_nonempty, fan_now, nfan, h_fan, h_credits, h_res,
           h_firsts>>

rvars == <<arrivals, pairs, race_now, nrace, h_race>>

uvars == <<shred_version, shred_chan, shred_rx_alive, shreds_received, bytes_received,
           shreds_dropped, ndatagrams, h_enqueued, h_rx>>

pvars == <<h_snap, h_samples>>

wvars == <<wire_bytes, h_built, h_parsed>>

\* The components added after the first four.
evars == <<ent_state, h_ent_txs>>

qvars == <<last_slot, rpc_metrics, rpc_chan, rpc_pc, npolls, h_poll, h_attempted>>

gvars == <<conn_pc, geyser_metrics, geyser_chan, nends, nupdates, h_attempts, h_run>>

\* The threads outside the shred path.
kvars == <<recv_pc, raw_chan, decode_pc, inner_chan, relay_pc, evict_pc, out_count, nfed>>

lvars == <<lk_owner, lk_th, lk_first>>

tvars == <<qvars, gvars, kvars, lvars>>

ovars == <<uvars, pvars, wvars, evars, tvars>>

vars == <<dvars, mvars, fvars, rvars, ovars>>

-----------------------------------------------------------------------------
(* Generic helpers for partial maps (HashMap) and integer arithmetic.        *)

Put(f, k, v) == [x \in (DOMAIN f) \cup {k} |-> IF x = k THEN v ELSE f[x]]

\* A history kept for the keys of its domain only: f with v at k when k is one
\* of them.
Note(f, k, v) == IF k \in DOMAIN f THEN [f EXCEPT ![k] = v] ELSE f

Del(f, k) == [x \in (DOMAIN f) \ {k} |-> f[x]]

Restrict(f, S) == [x \in (DOMAIN f) \cap S |-> f[x]]

EmptyMap == <<>>

GetOr(f, k, d) == IF k \in DOMAIN f THEN f[k] ELSE d

Min(a, b) == IF a <= b THEN a ELSE b

SubSeqFrom(s, off) == SubSeq(s, off + 1, Len(s))

RECURSIVE SetToSortedSeq(_)
SetToSortedSeq(S) ==
    IF S = {} THEN <<>>
    ELSE LET m == CHOOSE x \in S : \A y \in S : x <= y
         IN  <<m>> \o SetToSortedSeq(S \ {m})

-----------------------------------------------------------------------------
(* Bounds of the model.                                                      *)

\* Stand-in for u32::MAX: shred indices are narrowed from 32 bits to the range
\* 0..U32_MAX so that the sentinel and the wrap-around of the cursor are reachable.
U32_MAX == 3

\* Number of raw shreds the decoder takes from its input channel in one run.
MaxShreds == 4

\* Length in tokens of the byte stream of a slot.
MaxStream == 6

\* Capacity of the bounded channels (4096 in the source), narrowed.
ChanCap == 2

\* Stand-in for u64::MAX: slot numbers are narrowed from 64 bits to the range
\* 0..U64_MAX so that the overflow of slot + SLOT_EXPIRY_DISTANCE is reachable.
U64_MAX == 66

-----------------------------------------------------------------------------
(* Program constants.                                                        *)

SLOT_EXPIRY_DISTANCE == 32

MAX_ACTIVE_SLOTS == 64

\* Entry-count sanity bound of the boundary scan.
TX_COUNT_SANITY == 512

\* galois_8 Reed-Solomon supports at most 256 shards in total.
RS_MAX_SHARDS == 256

-----------------------------------------------------------------------------
(* Byte streams.  Entry bytes are modelled as sequences of integer tokens:   *)
(* a token >= 0 is one little-endian u64 word with that value, a token < 0   *)
(* is one whole serialized transaction (transaction id = the token).  A      *)
(* bincode Entry {num_hashes, hash, transactions} is                          *)
(*      <<w, c, t_1, ..., t_c>>                                               *)
(* where w stands for the 40 bytes of num_hashes and hash (any token: bincode *)
(* accepts any bytes there), c is the transaction count word and t_i are      *)
(* transaction tokens.  The 48-byte minimum of the source is 2 tokens here.   *)

IsTx(t) == t < 0

\* bincode::deserialize_from::<Entry> on b[off..] succeeds.
DecodeOk(b, off) ==
    /\ off + 2 <= Len(b)
    /\ b[off + 2] >= 0
    /\ off + 2 + b[off + 2] <= Len(b)
    /\ \A i \in 1..b[off + 2] : IsTx(b[off + 2 + i])

\* Cursor position after the entry decoded at off.
DecodeEnd(b, off) == off + 2 + b[off + 2]

\* entry.transactions of the entry decoded at off.
DecodeTxs(b, off) == SubSeq(b, off + 3, off + 2 + b[off + 2])

-----------------------------------------------------------------------------
(* Raw shreds.  A datagram is modelled by the fields the parsers read from it: *)
(*   kind    "short"  shorter than the common header                          *)
(*           "data"   data variant with a valid payload end                   *)
(*           "code"   Merkle coding variant                                   *)
(*           "other"  header readable, neither parser accepts it              *)
(*   slot, index, fsi          common header                                  *)
(*   last, payload             data header / entry bytes                      *)
(*   nd, nc, pos               coding header                                  *)

Shred(kind, slot, index, fsi, last, payload, nd, nc, pos) ==
    [kind |-> kind, slot |-> slot, index |-> index, fsi |-> fsi, last |-> last,
     payload |-> payload, nd |-> nd, nc |-> nc, pos |-> pos]

\* Option values are sets with at most one element.
None == {}

Some(x) == {x}

shred_slot_index(sh) ==
    IF sh.kind = "short" THEN None
    ELSE Some([slot |-> sh.slot, index |-> sh.index, fsi |-> sh.fsi])

parse_coding_header(sh) ==
    IF sh.kind # "code" THEN None
    ELSE IF sh.nd = 0 \/ sh.nc = 0 THEN None
    ELSE Some([num_data |-> sh.nd, num_coding |-> sh.nc, position |-> sh.pos])

parse_data_payload(sh) ==
    IF sh.kind # "data" THEN None
    ELSE Some([last_in_slot |-> sh.last, payload |-> sh.payload])

\* What the leader put at (slot, index): one entry holding one transaction;
\* index 1 closes the slot.  A Reed-Solomon recovery over consistent shards
\* yields these shreds.
LeaderShred(slot, index) ==
    Shred("data", slot, index, 0, index = 1, <<7, 1, -(index + 1)>>, 0, 0, 0)

\* The tail of an entry whose head was never received.
TailPayload == <<-9>>

Slots == {0, 1, 33, U64_MAX - 1, U64_MAX}

\* Wire data shreds: on slot 0 every index with either value of the
\* last-in-slot flag, and an entry tail at index 0; one shred each on slots 1, 33.
DataShreds ==
    {[LeaderShred(0, i) EXCEPT !.last = l] : i \in 0..U32_MAX, l \in BOOLEAN}
    \cup {Shred("data", 0, i, 0, FALSE, TailPayload, 0, 0, 0) : i \in 0..1}
    \cup {[LeaderShred(1, 0) EXCEPT !.last = TRUE]}
    \cup {LeaderShred(33, 0)}

\* Wire coding shreds of FEC set (0, 0), declaring shape (2, 1) or (1, 1).
CodeShreds ==
    {Shred("code", 0, 0, 0, FALSE, <<>>, sp[1], sp[2], pos) :
        sp \in {<<2, 1>>, <<1, 1>>}, pos \in 0..1}

\* Which reconstructed data positions re-parse as data shreds: all or none.
RecoveredOk == {{}, {0, 1}}

OtherShreds ==
    {Shred("short", 0, 0, 0, FALSE, <<>>, 0, 0, 0),
     Shred("other", 33, 0, 0, FALSE, <<>>, 0, 0, 0)}

-----------------------------------------------------------------------------
(* SlotState                                                                 *)

\* SlotState::new.  h_anchor is history: the index the slot was first anchored
\* to, -1 before that; h_ins is history: the indices at which a payload was
\* inserted into data_payloads.
SlotState_new ==
    [data_payloads |-> EmptyMap, next_contiguous |-> U32_MAX, entry_buf |-> <<>>,
     consumed |-> 0, max_index |-> 0, last_seen |-> FALSE, txs_decoded |-> 0,
     counted |-> FALSE, boundary_scanned |-> FALSE, h_anchor |-> -1, h_ins |-> {}]

set_first_index(st, idx) ==
    IF st.next_contiguous = U32_MAX
    THEN [st EXCEPT !.next_contiguous = idx,
                    !.boundary_scanned = (idx = 0),
                    !.h_anchor = IF @ = -1 THEN idx ELSE @]
    ELSE st

\* flush_contiguous with `if let` for `while let`: at most one payload a call.
flush_contiguous_once(st) ==
    IF st.next_contiguous \notin DOMAIN st.data_payloads
    THEN [st |-> st, panic |-> FALSE]
    ELSE LET st1 == [st EXCEPT !.data_payloads = Del(@, st.next_contiguous),
                               !.entry_buf = @ \o st.data_payloads[st.next_contiguous]]
         IN  IF st.next_contiguous = U32_MAX
             THEN [st |-> [st1 EXCEPT !.next_contiguous = 0], panic |-> overflow_checks]
             ELSE [st |-> [st1 EXCEPT !.next_contiguous = @ + 1], panic |-> FALSE]

\* Returns the state and whether `next_contiguous += 1` overflowed with
\* overflow checks on (the thread panics); with checks off the cursor wraps.
RECURSIVE flush_contiguous(_)
flush_contiguous(st) ==
    IF st.next_contiguous \notin DOMAIN st.data_payloads
    THEN [st |-> st, panic |-> FALSE]
    ELSE LET st1 == [st EXCEPT !.data_payloads = Del(@, st.next_contiguous),
                               !.entry_buf = @ \o st.data_payloads[st.next_contiguous]]
         IN  IF st.next_contiguous = U32_MAX
             THEN IF overflow_checks
                  THEN [st |-> st1, panic |-> TRUE]
                  ELSE flush_contiguous([st1 EXCEPT !.next_contiguous = 0])
             ELSE flush_contiguous([st1 EXCEPT !.next_contiguous = @ + 1])

\* Phase 1 of try_deserialize: the first offset of buf at which the count word
\* passes the sanity bound and a trial decode succeeds, -1 if there is none.
ScanBoundary(buf) ==
    LET cands == {off \in 0..(Len(buf) - 2) :
                     /\ buf[off + 2] <= TX_COUNT_SANITY
                     /\ DecodeOk(buf, off)}
    IN  IF cands = {} THEN -1
        ELSE CHOOSE off \in cands : \A o \in cands : off <= o

\* Phase 2 whose cursor is not set back when an entry fails to decode.
DecodeLoop_noreset(b, off, acc) ==
    [pos |-> Len(b), txs |-> acc]

\* Phase 2 of try_deserialize: decode whole entries from off on.
RECURSIVE DecodeLoop(_, _, _)
DecodeLoop(b, off, acc) ==
    IF DecodeOk(b, off)
    THEN DecodeLoop(b, DecodeEnd(b, off), acc \o DecodeTxs(b, off))
    ELSE [pos |-> off, txs |-> acc]

try_deserialize(st) ==
    LET buf1  == SubSeqFrom(st.entry_buf, st.consumed)
        found == IF st.boundary_scanned THEN 0
                 ELSE IF Len(buf1) < 2 THEN -1
                 ELSE ScanBoundary(buf1)
    IN  IF found = -1 THEN [st |-> st, txs |-> <<>>]
        ELSE LET st1 == [st EXCEPT !.consumed = @ + found, !.boundary_scanned = TRUE]
                 r   == DecodeLoop(SubSeqFrom(st1.entry_buf, st1.consumed), 0, <<>>)
             IN  [st |-> [st1 EXCEPT !.consumed = @ + r.pos], txs |-> r.txs]

\* The completion test without its guard on the slot's counted flag.
is_complete_ignoring_counted(st) ==
    st.last_seen /\ st.next_contiguous > st.max_index

\* The completion test without its comparison of the cursor with max_index.
is_complete_eager(st) ==
    st.last_seen /\ ~st.counted

\* The completion test made after every flush.
is_complete(st) ==
    st.last_seen /\ st.next_contiguous > st.max_index /\ ~st.counted

-----------------------------------------------------------------------------
(* FecSet                                                                    *)

FecSet_new(num_data, num_coding) ==
    [num_data |-> num_data, num_coding |-> num_coding, shards |-> EmptyMap,
     recovered |-> FALSE]

\* ready_to_recover without its test of the recovered flag.
ready_to_recover_again(fec) ==
    Cardinality(DOMAIN fec.shards) >= fec.num_data

ready_to_recover(fec) ==
    ~fec.recovered /\ Cardinality(DOMAIN fec.shards) >= fec.num_data

\* FecSet::reconstruct: the data positions it returns a shard for, ascending.
\* (The caller sets fec.recovered.)  The Reed-Solomon library succeeds iff its
\* parameters are supported and at least num_data of the num_data + num_coding
\* shard slots are filled.
reconstruct(fec) ==
    LET total   == fec.num_data + fec.num_coding
        missing == {i \in 0..(fec.num_data - 1) : i \notin DOMAIN fec.shards}
        present == {i \in 0..(total - 1) : i \in DOMAIN fec.shards}
    IN  IF total = 0 \/ fec.num_data = 0 \/ fec.num_coding = 0 THEN <<>>
        ELSE IF missing = {} THEN <<>>
        ELSE IF total > RS_MAX_SHARDS THEN <<>>
        ELSE IF Cardinality(present) < fec.num_data THEN <<>>
        ELSE SetToSortedSeq(missing)

-----------------------------------------------------------------------------
(* ShredDecoder::run.  The body of the `for raw_shred in &self.rx` loop works *)
(* on a record D of the loop's state:                                        *)
(*   slots, fec, hi, m, chan, pc   the program's state                       *)
(*   ho, he, hc, hr, hl, hx, hs, last   the history variables                *)

\* self.tx.try_send for each decoded transaction, in order: a full channel
\* drops the transaction.
try_send_all(chan, msgs) ==
    chan \o SubSeq(msgs, 1, Min(Len(msgs), ChanCap - Len(chan)))

DecodedTxs(txs, slot) == [i \in 1..Len(txs) |-> [tx |-> txs[i], slot |-> slot]]

\* The thread unwinds: the loop's maps are dropped, the shared counters stay.
Panicked(D) ==
    [D EXCEPT !.slots = EmptyMap, !.fec = EmptyMap, !.pc = "panicked"]

\* s + SLOT_EXPIRY_DISTANCE on u64, as the closures of both retain calls
\* compute it in a build without overflow checks.
slot_plus_distance(s) == (s + SLOT_EXPIRY_DISTANCE) % (U64_MAX + 1)

\* A retain closure that keeps every slot.
retained_always(s, highest) == s >= 0

\* The retain closure with the distance test off by one.
retained_one_more(s, highest) == slot_plus_distance(s) + 1 >= highest

\* The closure of both retain calls: keep slot s under the new highest slot.
retained(s, highest) == slot_plus_distance(s) >= highest

SumOverflows(s) == s + SLOT_EXPIRY_DISTANCE > U64_MAX

\* A panic inside slots.retain: the slots the sweep may have classified before
\* it reached a slot whose sum overflows (HashMap iteration order is arbitrary).
SweepsBeforePanic(D, slot) ==
    IF /\ slot > D.hi
       /\ overflow_checks
       /\ \E s \in DOMAIN D.slots : SumOverflows(s)
    THEN SUBSET {s \in DOMAIN D.slots :
                    ~SumOverflows(s) /\ ~retained(s, slot) /\ ~D.slots[s].counted}
    ELSE {{}}

\* Lines 410-426: a new highest slot expires every slot (and its FEC sets) more
\* than SLOT_EXPIRY_DISTANCE behind it, counting the uncounted ones.  With
\* overflow checks the sum panics on a held slot within SLOT_EXPIRY_DISTANCE of
\* u64::MAX: in slots.retain after the slots in `seen` were classified, or in
\* fec_sets.retain after the whole sweep of the slot states.
ExpireSlots(D, slot, seen) ==
    IF slot > D.hi
    THEN LET panic_slots == overflow_checks /\ \E s \in DOMAIN D.slots : SumOverflows(s)
             panic_fec   == overflow_checks /\ \E s \in DOMAIN D.fec : SumOverflows(s)
             gone == IF panic_slots THEN seen
                     ELSE {s \in DOMAIN D.slots : ~retained(s, slot)}
             keep == (DOMAIN D.slots) \ gone
             unc  == {s \in gone : ~D.slots[s].counted}
             part == {s \in unc : D.slots[s].txs_decoded > 0}
             D1   == [D EXCEPT
                        !.hi = slot,
                        !.slots = Restrict(@, keep),
                        !.fec = Restrict(@, {s \in DOMAIN @ : retained(s, slot)}),
                        !.m.slots_partial = @ + Cardinality(part),
                        !.m.slots_dropped = @ + Cardinality(unc \ part),
                        !.ho = [s \in DOMAIN @ |->
                                  IF s \in part THEN Append(D.ho[s], "partial")
                                  ELSE IF s \in unc THEN Append(D.ho[s], "dropped")
                                  ELSE D.ho[s]],
                        !.he = @ \cup gone]
         IN  IF panic_slots \/ panic_fec THEN Panicked(D1) ELSE D1
    ELSE D

\* Line 428: the shred belongs to a slot that has expired.
IsExpired(D, slot) ==
    (IF D.hi >= slot THEN D.hi - slot ELSE 0) > SLOT_EXPIRY_DISTANCE

\* slots.entry(slot).or_insert_with(..): the slot state, created (and counted
\* in slots_attempted) when absent.
EnsureSlot(D, slot) ==
    IF slot \in DOMAIN D.slots THEN D
    ELSE [D EXCEPT !.slots = Put(@, slot, SlotState_new),
                   !.m.slots_attempted = @ + 1,
                   !.hc = Note(@, slot, GetOr(@, slot, 0) + 1),
                   !.hs = Note(@, slot, 0)]

\* Lines 507-538 and 582-608: flush, completion test, deserialize, emit, for
\* the slot state st of `slot` (already updated with the new payloads).
FlushAndEmit(D, slot, st) ==
    LET fl == flush_contiguous(st)
    IN  IF fl.panic THEN Panicked(D)
        ELSE LET done == is_complete(fl.st)
                 st1  == IF done THEN [fl.st EXCEPT !.counted = TRUE] ELSE fl.st
                 de   == try_deserialize(st1)
                 n    == Len(de.txs)
             IN  [D EXCEPT
                    !.slots = Put(@, slot, [de.st EXCEPT !.txs_decoded = @ + n]),
                    !.m.slots_complete = IF done THEN @ + 1 ELSE @,
                    !.m.txs_decoded = @ + n,
                    !.ho = IF done THEN Note(@, slot, Append(GetOr(@, slot, <<>>), "complete"))
                           ELSE @,
                    !.chan = try_send_all(@, DecodedTxs(de.txs, slot)),
                    !.hs = Note(@, slot, GetOr(@, slot, 0) + n),
                    !.last.completed = done,
                    !.last.emitted = n]

\* Lines 477-497: insert the recovered shards (positions rec, ascending) that
\* re-parse as data shreds (positions in ok) and are not pending already.
RECURSIVE inject_recovered(_, _, _, _, _)
inject_recovered(st, slot, fsi, rec, ok) ==
    IF rec = <<>> THEN [st |-> st, count |-> 0, last |-> FALSE]
    ELSE LET i      == Head(rec)
             g      == Min(U32_MAX, fsi + i)
             parsed == IF i \in ok THEN parse_data_payload(LeaderShred(slot, g)) ELSE None
             skip   == g \in DOMAIN st.data_payloads \/ parsed = None
             d      == CHOOSE x \in parsed : TRUE
             st1    == IF skip THEN st
                       ELSE [set_first_index(st, g) EXCEPT
                                !.max_index = IF g > @ THEN g ELSE @,
                                !.last_seen = @ \/ d.last_in_slot,
                                !.data_payloads = Put(@, g, d.payload),
                                !.h_ins = @ \cup {g}]
             r      == inject_recovered(st1, slot, fsi, Tail(rec), ok)
         IN  [st |-> r.st, count |-> r.count + (IF skip THEN 0 ELSE 1),
              last |-> r.last \/ (~skip /\ d.last_in_slot)]

\* The coding shred path without the shape test of lines 458-460.
CodingPath_any_shape(D, sh, code, ok) ==
    LET slot == sh.slot
        fsi  == sh.fsi
        shard_pos == code.num_data + code.position
        known == slot \in DOMAIN D.fec /\ fsi \in DOMAIN D.fec[slot]
        D1 == IF known THEN D
              ELSE [D EXCEPT
                      !.fec = Put(@, slot, Put(GetOr(D.fec, slot, EmptyMap), fsi,
                                               FecSet_new(code.num_data, code.num_coding))),
                      !.m.coverage_shreds_expected = @ + code.num_data]
        fec0 == D1.fec[slot][fsi]
    IN  IF code.position >= code.num_coding THEN D
        ELSE LET fec1 == [fec0 EXCEPT !.shards = IF shard_pos \in DOMAIN @ THEN @
                                                  ELSE Put(@, shard_pos, sh)]
                 D2 == [D1 EXCEPT !.fec[slot][fsi] = fec1,
                                  !.hr = Note(@, <<slot, fsi>>,
                                              GetOr(@, <<slot, fsi>>, {})
                                                 \cup {-(code.position + 1)})]
             IN  IF ~ready_to_recover(fec1) THEN D2
                 ELSE LET rec == reconstruct(fec1)
                          D3  == [D2 EXCEPT !.fec[slot][fsi].recovered = TRUE,
                                            !.last.ran_rs = TRUE,
                                            !.hx = Note(@, <<slot, fsi>>,
                                                         GetOr(@, <<slot, fsi>>, 0) + 1)]
                      IN  IF rec = <<>> THEN D3
                          ELSE LET D4  == EnsureSlot(D3, slot)
                                   inj == inject_recovered(D4.slots[slot], slot, fsi, rec, ok)
                                   D5  == [D4 EXCEPT
                                             !.slots[slot] = inj.st,
                                             !.m.fec_recovered_shreds = @ + inj.count,
                                             !.m.coverage_shreds_seen = @ + inj.count,
                                             !.last.injected = inj.count,
                                             !.hl = IF inj.last THEN @ \cup {slot}
                                                    ELSE @]
                               IN  IF inj.count > 0
                                   THEN FlushAndEmit(D5, slot, inj.st)
                                   ELSE D5

\* Lines 435-544: the coding shred path.  ok: the data positions whose
\* reconstructed shard re-parses as a data shred.
CodingPath(D, sh, code, ok) ==
    LET slot == sh.slot
        fsi  == sh.fsi
        shard_pos == code.num_data + code.position
        known == slot \in DOMAIN D.fec /\ fsi \in DOMAIN D.fec[slot]
        D1 == IF known THEN D
              ELSE [D EXCEPT
                      !.fec = Put(@, slot, Put(GetOr(D.fec, slot, EmptyMap), fsi,
                                               FecSet_new(code.num_data, code.num_coding))),
                      !.m.coverage_shreds_expected = @ + code.num_data]
        fec0 == D1.fec[slot][fsi]
    IN  IF code.position >= code.num_coding THEN D
        ELSE IF fec0.num_data # code.num_data \/ fec0.num_coding # code.num_coding THEN D1
        ELSE LET fec1 == [fec0 EXCEPT !.shards = IF shard_pos \in DOMAIN @ THEN @
                                                  ELSE Put(@, shard_pos, sh)]
                 D2 == [D1 EXCEPT !.fec[slot][fsi] = fec1,
                                  !.hr = Note(@, <<slot, fsi>>,
                                              GetOr(@, <<slot, fsi>>, {})
                                                 \cup {-(code.position + 1)})]
             IN  IF ~ready_to_recover(fec1) THEN D2
                 ELSE LET rec == reconstruct(fec1)
                          D3  == [D2 EXCEPT !.fec[slot][fsi].recovered = TRUE,
                                            !.last.ran_rs = TRUE,
                                            !.hx = Note(@, <<slot, fsi>>,
                                                         GetOr(@, <<slot, fsi>>, 0) + 1)]
                      IN  IF rec = <<>> THEN D3
                          ELSE LET D4  == EnsureSlot(D3, slot)
                                   inj == inject_recovered(D4.slots[slot], slot, fsi, rec, ok)
                                   D5  == [D4 EXCEPT
                                             !.slots[slot] = inj.st,
                                             !.m.fec_recovered_shreds = @ + inj.count,
                                             !.m.coverage_shreds_seen = @ + inj.count,
                                             !.last.injected = inj.count,
                                             !.hl = IF inj.last THEN @ \cup {slot}
                                                    ELSE @]
                               IN  IF inj.count > 0
                                   THEN FlushAndEmit(D5, slot, inj.st)
                                   ELSE D5

\* Lines 547-608: the data shred path.
DataPath(D, sh, data) ==
    LET slot == sh.slot
        idx  == sh.index
        fsi  == sh.fsi
        D1 == EnsureSlot([D EXCEPT !.m.coverage_shreds_seen = @ + 1,
                                   !.hl = IF data.last_in_slot THEN @ \cup {slot}
                                          ELSE @], slot)
        \* checked_sub: the shard position, when index >= fec_set_index
        D2 == IF idx < fsi THEN D1
              ELSE LET fecs == Put(D1.fec, slot, GetOr(D1.fec, slot, EmptyMap))
                   IN  [D1 EXCEPT
                          !.fec = IF fsi \in DOMAIN fecs[slot]
                                  THEN [fecs EXCEPT ![slot][fsi].shards =
                                           IF (idx - fsi) \in DOMAIN @ THEN @
                                           ELSE Put(@, idx - fsi, sh)]
                                  ELSE fecs,
                          !.hr = Note(@, <<slot, fsi>>,
                                      GetOr(@, <<slot, fsi>>, {}) \cup {idx - fsi})]
        st == [set_first_index(D2.slots[slot], idx) EXCEPT
                 !.max_index = IF idx > @ THEN idx ELSE @,
                 !.last_seen = @ \/ data.last_in_slot,
                 !.data_payloads = Put(@, idx, data.payload),
                 !.h_ins = @ \cup {idx}]
    IN  FlushAndEmit(D2, slot, st)

\* One iteration of the loop for raw shred sh.
HandleShred(D, sh, ok, seen) ==
    LET si == shred_slot_index(sh)
        D0 == [D EXCEPT !.last = [kind |-> sh.kind, slot |-> sh.slot, index |-> sh.index,
                                  dropped |-> TRUE, ran_rs |-> FALSE, injected |-> 0,
                                  completed |-> FALSE, emitted |-> 0,
                                  nd |-> sh.nd, nc |-> sh.nc]]
    IN  IF si = None THEN D0
        ELSE LET D1   == ExpireSlots(D0, sh.slot, seen)
                 code == parse_coding_header(sh)
                 data == parse_data_payload(sh)
             IN  IF D1.pc = "panicked" \/ IsExpired(D1, sh.slot) THEN D1
                 ELSE IF code # None
                      THEN CodingPath([D1 EXCEPT !.last.dropped = FALSE], sh,
                                      CHOOSE c \in code : TRUE, ok)
                 ELSE IF data # None
                      THEN DataPath([D1 EXCEPT !.last.dropped = FALSE], sh,
                                    CHOOSE d \in data : TRUE)
                 ELSE D1

-----------------------------------------------------------------------------
(* The decoder as a state machine.                                           *)

FecKeys == Slots \X {0}

DecoderMetrics_new ==
    [slots_attempted |-> 0, slots_complete |-> 0, slots_partial |-> 0,
     slots_dropped |-> 0, coverage_shreds_seen |-> 0, coverage_shreds_expected |-> 0,
     fec_recovered_shreds |-> 0, txs_decoded |-> 0]

NoShred ==
    [kind |-> "none", slot |-> 0, index |-> 0, dropped |-> FALSE, ran_rs |-> FALSE,
     injected |-> 0, completed |-> FALSE, emitted |-> 0, nd |-> 0, nc |-> 0]

DecoderState ==
    [slots |-> slots, fec |-> fec_sets, hi |-> highest_slot, m |-> dmetrics,
     chan |-> decoded_chan, pc |-> decoder_pc, ho |-> h_outcomes, he |-> h_evicted,
     hc |-> h_created, hr |-> h_recv, hl |-> h_lastflag, hx |-> h_runs,
     hs |-> h_sent, last |-> h_last]

\* The decoder takes raw shred sh from self.rx and handles it.
DecodeShred(sh, ok) ==
    /\ decoder_pc = "running"
    /\ nshreds < MaxShreds
    /\ \E D \in {HandleShred(DecoderState, sh, ok, seen) :
                    seen \in SweepsBeforePanic(DecoderState, sh.slot)} :
           /\ slots' = D.slots
           /\ fec_sets' = D.fec
           /\ highest_slot' = D.hi
           /\ dmetrics' = D.m
           /\ decoded_chan' = D.chan
           /\ decoder_pc' = D.pc
           /\ h_outcomes' = D.ho
           /\ h_evicted' = D.he
           /\ h_created' = D.hc
           /\ h_recv' = D.hr
           /\ h_last' = D.last
           /\ h_lastflag' = D.hl
           /\ h_runs' = D.hx
           /\ h_sent' = D.hs
    /\ nshreds' = nshreds + 1
    /\ UNCHANGED <<overflow_checks, mvars, fvars, rvars, ovars>>

\* Coding shreds of FEC set (0, 0) declaring every shape over one or two data
\* and one or two coding shards, with the data shreds of the slot and a shred
\* of a slot past the expiry distance.
ShapeShreds ==
    {Shred("code", 0, 0, 0, FALSE, <<>>, nd, nc, pos) :
        nd \in 1..2, nc \in 1..2, pos \in 0..1}
    \cup {LeaderShred(0, 0), LeaderShred(0, 1), LeaderShred(33, 0)}

NextShapes == \E sh \in ShapeShreds : \E ok \in RecoveredOk : DecodeShred(sh, ok)

\* The slots of the expiry runs: two slots SLOT_EXPIRY_DISTANCE apart and the
\* two highest slot numbers.
ExpirySlots == {1, SLOT_EXPIRY_DISTANCE + 1, U64_MAX - 1, U64_MAX}

\* Wire shreds of the expiry runs, per slot: a data shred carrying one entry, an
\* entry tail, and the coding shred of a FEC set of shape (1, 1); on slot 1 also
\* a data shred that closes the slot.
ExpiryShreds ==
    {LeaderShred(s, 0) : s \in ExpirySlots}
    \cup {Shred("data", s, 0, 0, FALSE, TailPayload, 0, 0, 0) : s \in ExpirySlots}
    \cup {Shred("code", s, 0, 0, FALSE, <<>>, 1, 1, 0) : s \in ExpirySlots}
    \cup {[LeaderShred(1, 0) EXCEPT !.last = TRUE]}

NextExpiry == \E sh \in ExpiryShreds : DecodeShred(sh, {})

\* The slot numbers of a feed that tries to pile up slot states: the highest
\* slot (when it has no state yet), the next slot, a jump past the expiry
\* distance, and the newest slot no longer admitted.
FeedSlots ==
    {s \in {highest_slot, highest_slot + 1,
            highest_slot + SLOT_EXPIRY_DISTANCE + 1,
            highest_slot - SLOT_EXPIRY_DISTANCE - 1} :
        s \in 0..U64_MAX /\ s \notin DOMAIN slots}

\* The decoder takes the first data shred of slot s (an entry tail).  The run is
\* bounded by the slot numbers, not by the shred budget.
FeedSlot(s) ==
    /\ decoder_pc = "running"
    /\ \E D \in {HandleShred(DecoderState,
                             Shred("data", s, 0, 0, FALSE, TailPayload, 0, 0, 0),
                             {}, seen) :
                    seen \in SweepsBeforePanic(DecoderState, s)} :
           /\ slots' = D.slots
           /\ fec_sets' = D.fec
           /\ highest_slot' = D.hi
           /\ dmetrics' = D.m
           /\ decoded_chan' = D.chan
           /\ decoder_pc' = D.pc
           /\ h_outcomes' = D.ho
           /\ h_evicted' = D.he
           /\ h_created' = D.hc
           /\ h_recv' = D.hr
           /\ h_last' = D.last
           /\ h_lastflag' = D.hl
           /\ h_runs' = D.hx
           /\ h_sent' = D.hs
    /\ UNCHANGED <<overflow_checks, nshreds, mvars, fvars, rvars, ovars>>

NextWindow == \E s \in FeedSlots : FeedSlot(s)

NextDecoder ==
    \/ \E sh \in DataShreds \cup OtherShreds : DecodeShred(sh, {})
    \/ \E sh \in CodeShreds : \E ok \in RecoveredOk : DecodeShred(sh, ok)

\* The feed moves on: the loop of run() takes a shred of a later slot (lines
\* 402-430).  The slot is SLOT_EXPIRY_DISTANCE + 1 past slot 0, so the step is
\* the expiry sweep of lines 410-426; it is not charged to the shred budget.
FeedAdvances ==
    /\ decoder_pc = "running"
    /\ \E D \in {HandleShred(DecoderState,
                    Shred("other", 33, 0, 0, FALSE, <<>>, 0, 0, 0), {}, {})} :
           /\ slots' = D.slots
           /\ fec_sets' = D.fec
           /\ highest_slot' = D.hi
           /\ dmetrics' = D.m
           /\ decoded_chan' = D.chan
           /\ decoder_pc' = D.pc
           /\ h_outcomes' = D.ho
           /\ h_evicted' = D.he
           /\ h_created' = D.hc
           /\ h_recv' = D.hr
           /\ h_last' = D.last
           /\ h_lastflag' = D.hl
           /\ h_runs' = D.hx
           /\ h_sent' = D.hs
    /\ UNCHANGED <<overflow_checks, nshreds, mvars, fvars, rvars, ovars>>

-----------------------------------------------------------------------------
(* Timestamps.  A u64 nanosecond timestamp t is held as two limbs,           *)
(*      [us |-> t / 1000, ns |-> t % 1000],                                   *)
(* so that fifteen minutes of nanoseconds fit the checker's integers while    *)
(* the sub-microsecond part of every timestamp stays exact.                   *)

Ts(us, ns) == [us |-> us, ns |-> ns]

TsLe(a, b) == a.us < b.us \/ (a.us = b.us /\ a.ns <= b.ns)

TsLt(a, b) == a.us < b.us \/ (a.us = b.us /\ a.ns < b.ns)

Abs(x) == IF x < 0 THEN -x ELSE x

\* a.saturating_sub(d) for a duration d of d_us whole microseconds.
saturating_sub(a, d_us) ==
    IF a.us < d_us THEN Ts(0, 0) ELSE Ts(a.us - d_us, a.ns)

\* (a as i64 - b as i64) / 1000: the division of Rust integers truncates
\* toward zero, so a negative difference is rounded up.
DiffDivThousand(a, b) ==
    LET du == a.us - b.us
        dn == a.ns - b.ns
    IN  IF du > 0 \/ (du = 0 /\ dn >= 0)
        THEN (IF dn < 0 THEN du - 1 ELSE du)
        ELSE (IF dn > 0 THEN du + 1 ELSE du)

-----------------------------------------------------------------------------
(* SourceMetrics: the lead-time fields and the fan-in counters.              *)

\* Capacity of the sample reservoirs (4096 in the source), narrowed so that
\* the circular buffer wraps.
RESERVOIR_CAP == 2

\* Number of direct record_lead_time_us calls in one run.
MaxRecords == 4

LEAD_TIME_MAX_US == 2000000

LEAD_TIME_MIN_US == -500000

FanSources == {"a", "b", "rpc", "geyser"}

is_rpc(s) == s \in {"rpc", "geyser"}

LeadTimeReservoir_new ==
    [buf |-> [i \in 1..RESERVOIR_CAP |-> 0], len |-> 0, pos |-> 0]

\* push that stops advancing once the buffer is full: the newest sample is
\* overwritten instead of the oldest.
LeadTimeReservoir_push_stuck(r, v) ==
    [buf |-> [r.buf EXCEPT ![r.pos + 1] = v],
     pos |-> IF r.len < RESERVOIR_CAP - 1 THEN r.pos + 1 ELSE r.pos,
     len |-> IF r.len < RESERVOIR_CAP THEN r.len + 1 ELSE r.len]

LeadTimeReservoir_push(r, v) ==
    [buf |-> [r.buf EXCEPT ![r.pos + 1] = v],
     pos |-> (r.pos + 1) % RESERVOIR_CAP,
     len |-> IF r.len < RESERVOIR_CAP THEN r.len + 1 ELSE r.len]

\* The samples a reservoir holds: buf[..len].
Held(r) == SubSeq(r.buf, 1, r.len)

\* percentiles without the sort.
percentiles_unsorted(r) ==
    IF r.len = 0 THEN None
    ELSE LET sorted == Held(r)
             n == Len(sorted)
         IN  Some(<<sorted[Min((n * 50) \div 100, n - 1) + 1],
                    sorted[Min((n * 95) \div 100, n - 1) + 1],
                    sorted[Min((n * 99) \div 100, n - 1) + 1]>>)

\* LeadTimeReservoir::percentiles: (p50, p95, p99), or None if empty.
percentiles(r) ==
    IF r.len = 0 THEN None
    ELSE LET sorted == SortSeq(Held(r), LAMBDA a, b : a < b)
             n == Len(sorted)
         IN  Some(<<sorted[Min((n * 50) \div 100, n - 1) + 1],
                    sorted[Min((n * 95) \div 100, n - 1) + 1],
                    sorted[Min((n * 99) \div 100, n - 1) + 1]>>)

SourceMetrics_new ==
    [txs_first |-> 0, txs_duplicate |-> 0, lead_time_count |-> 0, lead_wins |-> 0,
     lead_time_sum_us |-> 0, lead_time_reservoir |-> LeadTimeReservoir_new]

\* record_lead_time_us with the two outlier bounds made exclusive.
record_lead_time_us_exclusive(m, us) ==
    IF us >= LEAD_TIME_MAX_US \/ us <= LEAD_TIME_MIN_US THEN m
    ELSE [m EXCEPT !.lead_time_count = @ + 1,
                   !.lead_wins = IF us > 0 THEN @ + 1 ELSE @,
                   !.lead_time_sum_us = @ + us,
                   !.lead_time_reservoir = LeadTimeReservoir_push(@, us)]

record_lead_time_us(m, us) ==
    IF us > LEAD_TIME_MAX_US \/ us < LEAD_TIME_MIN_US THEN m
    ELSE [m EXCEPT !.lead_time_count = @ + 1,
                   !.lead_wins = IF us > 0 THEN @ + 1 ELSE @,
                   !.lead_time_sum_us = @ + us,
                   !.lead_time_reservoir = LeadTimeReservoir_push(@, us)]

\* SourceMetrics::snapshot: the three percentile fields of the snapshot.
snapshot(m) ==
    LET ps == percentiles(m.lead_time_reservoir)
    IN  [lead_time_p50_us |-> {p[1] : p \in ps},
         lead_time_p95_us |-> {p[2] : p \in ps},
         lead_time_p99_us |-> {p[3] : p \in ps}]

LeadSamples == {-500001, -500000, -7, 0, 7, 2000000, 2000001}

NoRecord == [called |-> FALSE, source |-> "a", us |-> 0]

\* One call metrics.record_lead_time_us(us) on the metrics of source s.
RecordLeadTime(s, us) ==
    /\ nrec < MaxRecords
    /\ smetrics' = [smetrics EXCEPT ![s] = record_lead_time_us(@, us)]
    /\ h_prev' = smetrics
    /\ h_rec' = [called |-> TRUE, source |-> s, us |-> us]
    /\ nrec' = nrec + 1
    /\ h_samples' = [h_samples EXCEPT ![s] =
                        IF smetrics'[s] = smetrics[s] THEN @ ELSE Append(@, us)]
    /\ UNCHANGED <<dvars, fvars, rvars, uvars, wvars, h_snap, evars, tvars>>

NoSnapshot ==
    [taken |-> FALSE, source |-> "a", samples |-> <<>>, snap |-> snapshot(SourceMetrics_new)]

\* One call metrics.snapshot() on the metrics of source s.
Snapshot(s) ==
    /\ h_snap' = [taken |-> TRUE, source |-> s,
                  samples |-> Held(smetrics[s].lead_time_reservoir),
                  snap |-> snapshot(smetrics[s])]
    /\ UNCHANGED <<dvars, mvars, fvars, rvars, uvars, wvars, h_samples, evars, tvars>>

NextMetrics ==
    \/ \E s \in {"a", "rpc"} : \E us \in LeadSamples : RecordLeadTime(s, us)
    \/ \E s \in {"a", "rpc"} : Snapshot(s)

-----------------------------------------------------------------------------
(* FanInSource::start: one relay thread per source and the eviction thread.  *)
(* A relay thread holds the DashMap entry of the signature from the lookup   *)
(* to the end of the match arm, so the handling of one transaction is one    *)
(* step with respect to every other thread that touches the same key.        *)

\* Number of transactions the relay threads take in one run.
MaxFanIn == 3

\* Retention of the dedup map in microseconds: 900_000_000_000 ns.
DEDUP_RETENTION_US == 900000000

\* Signature keys; NoSig is a transaction whose signature list is empty.
Keys == {1, 2}

NoSig == 0

FanClock == {Ts(3000200, 0), Ts(903000200, 0)}

\* A DecodedTx as the relay thread reads it: signatures[0], shred_recv_ns and
\* whether a static account key is in the filter set.
DecodedTx(key, recv_ns, matches) ==
    [key |-> key, shred_recv_ns |-> recv_ns, matches |-> matches]

\* What each source delivers to its relay thread: <<source, transaction>>.
FanInputs ==
    {<<"a", DecodedTx(1, t, TRUE)>> : t \in {Ts(100, 0), Ts(200, 0), Ts(3000200, 0)}}
        \cup {<<"a", DecodedTx(1, Ts(200, 0), FALSE)>>,
              <<"a", DecodedTx(NoSig, Ts(200, 0), TRUE)>>}
        \cup {<<"b", DecodedTx(1, t, TRUE)>> : t \in {Ts(200, 0), Ts(903000000, 0)}}
        \cup {<<"rpc", DecodedTx(1, t, TRUE)>> :
                  t \in {Ts(100, 500), Ts(200, 0), Ts(3000200, 0)}}
        \cup {<<"b", DecodedTx(2, Ts(200, 0), TRUE)>>,
              <<"rpc", DecodedTx(2, Ts(200, 0), TRUE)>>}
        \cup {<<"geyser", DecodedTx(1, Ts(150, 0), FALSE)>>,
              <<"rpc", DecodedTx(2, Ts(3000200, 1), TRUE)>>}

FirstArrival(recv_ns, isrpc, metrics) ==
    [recv_ns |-> recv_ns, is_rpc |-> isrpc, metrics |-> metrics]

\* Number of shards of the dedup map.
NumShards == 2

\* Signatures seen by the relay threads; signatures 1 and 3 share a shard.
LockKeys == {1, 2, 3}

\* The threads that take locks: a relay thread per source, the eviction thread
\* and a reader of metric snapshots.
RelayThreads == {"a", "rpc"}

LockThreads == RelayThreads \cup {"evict", "reader"}

Shard(i) == <<"shard", i>>

Res(s) == <<"res", s>>

Locks == {Shard(i) : i \in 0..(NumShards - 1)} \cup {Res(s) : s \in RelayThreads}

Free == "free"

IdleThread == [at |-> "idle", want |-> None, key |-> 0, src |-> "a", held |-> <<>>]

\* RpcSource: no poll made yet.
NoPoll == [tip |-> None, before |-> 0, failed |-> {}, polled |-> FALSE]

NoRelay ==
    [kind |-> "none", source |-> "a", key |-> NoSig, recv_ns |-> Ts(0, 0),
     first |-> None, lead |-> None, target |-> None]

Credit(s, c) == [source |-> s, credit |-> c]

\* Entry::Vacant without the insertion of the first arrival.
on_vacant_no_insert(F, s, tx) ==
    [F EXCEPT !.m[s].txs_first = @ + 1,
              !.out = try_send_all(@, <<tx>>),
              !.hc[tx.key] = Append(@, Credit(s, "first")),
              !.hr[tx.key] = Append(@, Credit(s, "first")),
              !.hfs[tx.key] = Some(tx.shred_recv_ns),
              !.hf = [NoRelay EXCEPT !.kind = "first", !.source = s,
                                     !.key = tx.key, !.recv_ns = tx.shred_recv_ns]]

\* Entry::Vacant that credits and remembers the arrival only when the forward
\* succeeded.
on_vacant_if_sent(F, s, tx) ==
    IF Len(F.out) < ChanCap
        THEN [F EXCEPT !.m[s].txs_first = @ + 1,
                       !.dedup = Put(@, tx.key,
                                     FirstArrival(tx.shred_recv_ns, is_rpc(s), s)),
                       !.out = try_send_all(@, <<tx>>),
                       !.hc[tx.key] = Append(@, Credit(s, "first")),
                       !.hr[tx.key] = Append(@, Credit(s, "first")),
                       !.hfs[tx.key] = Some(tx.shred_recv_ns),
                       !.hf = [NoRelay EXCEPT !.kind = "first", !.source = s,
                                              !.key = tx.key,
                                              !.recv_ns = tx.shred_recv_ns]]
        ELSE [F EXCEPT !.hf = [NoRelay EXCEPT !.kind = "first", !.source = s,
                                              !.key = tx.key,
                                              !.recv_ns = tx.shred_recv_ns]]

\* Entry::Vacant: credit the source, remember the arrival, forward downstream.
on_vacant(F, s, tx) ==
    [F EXCEPT !.m[s].txs_first = @ + 1,
              !.dedup = Put(@, tx.key, FirstArrival(tx.shred_recv_ns, is_rpc(s), s)),
              !.out = try_send_all(@, <<tx>>),
              !.hc[tx.key] = Append(@, Credit(s, "first")),
              !.hr[tx.key] = Append(@, Credit(s, "first")),
              !.hfs[tx.key] = Some(tx.shred_recv_ns),
              !.hf = [NoRelay EXCEPT !.kind = "first", !.source = s,
                                     !.key = tx.key, !.recv_ns = tx.shred_recv_ns]]

\* The lead computed with its operands exchanged.
lead_time_us_exchanged(rpc_ns, shred_ns) == DiffDivThousand(shred_ns, rpc_ns)

\* let lead_us = (rpc_ns as i64 - shred_ns as i64) / 1000;
lead_time_us(rpc_ns, shred_ns) == DiffDivThousand(rpc_ns, shred_ns)

\* Entry::Occupied that also forwards the transaction downstream.
on_occupied_forwarding(F, s, tx) ==
    [F EXCEPT !.m[s].txs_duplicate = @ + 1,
              !.out = try_send_all(@, <<tx>>),
              !.hc[tx.key] = Append(@, Credit(s, "dup")),
              !.hr[tx.key] = Append(@, Credit(s, "dup")),
              !.hf = [NoRelay EXCEPT !.kind = "dup", !.source = s, !.key = tx.key,
                                     !.recv_ns = tx.shred_recv_ns,
                                     !.first = Some(F.dedup[tx.key])]]

\* Entry::Occupied without the `continue` of the rpc-vs-rpc case: two baseline
\* arrivals are compared like two shred arrivals.
on_occupied_all_pairs(F, s, tx) ==
    LET first == F.dedup[tx.key]
        F1 == [F EXCEPT !.m[s].txs_duplicate = @ + 1,
                        !.hc[tx.key] = Append(@, Credit(s, "dup")),
                        !.hr[tx.key] = Append(@, Credit(s, "dup")),
                        !.hf = [NoRelay EXCEPT !.kind = "dup", !.source = s,
                                               !.key = tx.key,
                                               !.recv_ns = tx.shred_recv_ns,
                                               !.first = Some(first)]]
        p == IF ~first.is_rpc /\ is_rpc(s)
             THEN <<first.recv_ns, tx.shred_recv_ns>>
             ELSE <<tx.shred_recv_ns, first.recv_ns>>
        lead_us == lead_time_us(p[2], p[1])
        target == IF ~first.is_rpc THEN first.metrics ELSE s
    IN  [F1 EXCEPT !.m[target] = record_lead_time_us(@, lead_us),
                   !.hf.lead = Some(lead_us),
                   !.hf.target = Some(target)]

\* Entry::Occupied: credit a duplicate and record the lead-time sample.
on_occupied(F, s, tx) ==
    LET first == F.dedup[tx.key]
        F1 == [F EXCEPT !.m[s].txs_duplicate = @ + 1,
                        !.hc[tx.key] = Append(@, Credit(s, "dup")),
                        !.hr[tx.key] = Append(@, Credit(s, "dup")),
                        !.hf = [NoRelay EXCEPT !.kind = "dup", !.source = s,
                                               !.key = tx.key,
                                               !.recv_ns = tx.shred_recv_ns,
                                               !.first = Some(first)]]
        pair == IF ~first.is_rpc /\ is_rpc(s)
                    THEN Some(<<first.recv_ns, tx.shred_recv_ns>>)
                ELSE IF first.is_rpc /\ ~is_rpc(s)
                    THEN Some(<<tx.shred_recv_ns, first.recv_ns>>)
                ELSE IF ~is_rpc(s)
                    THEN Some(<<tx.shred_recv_ns, first.recv_ns>>)
                ELSE None
    IN  IF pair = None THEN F1
        ELSE LET p == CHOOSE x \in pair : TRUE
                 lead_us == lead_time_us(p[2], p[1])
                 target == IF ~first.is_rpc THEN first.metrics ELSE s
             IN  [F1 EXCEPT !.m[target] = record_lead_time_us(@, lead_us),
                            !.hf.lead = Some(lead_us),
                            !.hf.target = Some(target)]

\* The relay loop with the allowlist test made after the dedup lookup: a
\* transaction that does not match is credited first and then not forwarded.
relay_filter_after_dedup(F, s, tx) ==
    IF tx.key = NoSig
        THEN [F EXCEPT !.hf = [NoRelay EXCEPT !.kind = "nosig", !.source = s]]
    ELSE IF tx.key \notin DOMAIN F.dedup
        THEN IF filter_nonempty /\ ~is_rpc(s) /\ ~tx.matches
                 THEN [on_vacant(F, s, tx) EXCEPT !.out = F.out,
                                                  !.hf.kind = "filtered"]
                 ELSE on_vacant(F, s, tx)
    ELSE on_occupied(F, s, tx)

\* The body of the relay thread's loop for one transaction of source s.
relay(F, s, tx) ==
    IF filter_nonempty /\ ~is_rpc(s) /\ ~tx.matches
        THEN [F EXCEPT !.hf = [NoRelay EXCEPT !.kind = "filtered", !.source = s]]
    ELSE IF tx.key = NoSig
        THEN [F EXCEPT !.hf = [NoRelay EXCEPT !.kind = "nosig", !.source = s]]
    ELSE IF tx.key \notin DOMAIN F.dedup THEN on_vacant(F, s, tx)
    ELSE on_occupied(F, s, tx)

\* A retain closure with the comparison turned around: it keeps the old.
retain_dedup_inverted(d, cutoff_ns) ==
    Restrict(d, {k \in DOMAIN d : TsLe(d[k].recv_ns, cutoff_ns)})

\* dedup_evict.retain(|_, v| v.recv_ns > cutoff_ns)
retain_dedup(d, cutoff_ns) ==
    Restrict(d, {k \in DOMAIN d : TsLt(cutoff_ns, d[k].recv_ns)})

FanState ==
    [dedup |-> dedup, m |-> smetrics, out |-> out_chan, hf |-> h_fan,
     hc |-> h_credits, hr |-> h_res, hfs |-> h_firsts]

\* The relay thread of source s takes tx from its inner channel.
Relay(s, tx) ==
    /\ nfan < MaxFanIn
    /\ TsLe(tx.shred_recv_ns, fan_now)
    /\ \E F \in {relay(FanState, s, tx)} :
           /\ dedup' = F.dedup
           /\ smetrics' = F.m
           /\ out_chan' = F.out
           /\ h_fan' = F.hf
           /\ h_credits' = F.hc
           /\ h_res' = F.hr
           /\ h_firsts' = F.hfs
    /\ h_prev' = smetrics
    /\ nfan' = nfan + 1
    /\ UNCHANGED <<dvars, nrec, h_rec, filter_nonempty, fan_now, rvars, ovars>>

\* Time passes.
FanTick ==
    /\ \E t \in FanClock : TsLt(fan_now, t) /\ fan_now' = t
    /\ UNCHANGED <<ovars, dvars, mvars, dedup, out_chan, filter_nonempty, nfan, h_fan,
                   h_credits, h_res, h_firsts, rvars>>

\* One round of the eviction thread.
FanEvict ==
    /\ \E kept \in {retain_dedup(dedup, saturating_sub(fan_now, DEDUP_RETENTION_US))} :
           /\ dedup' = kept
           /\ h_res' = [k \in Keys |-> IF k \in DOMAIN kept THEN h_res[k] ELSE <<>>]
    /\ h_fan' = [NoRelay EXCEPT !.kind = "evict"]
    /\ UNCHANGED <<ovars, dvars, mvars, out_chan, filter_nonempty, fan_now, nfan,
                   h_credits, h_firsts, rvars>>

NextFanIn ==
    \/ \E in \in FanInputs : Relay(in[1], in[2])
    \/ FanTick
    \/ FanEvict

-----------------------------------------------------------------------------
(* ShredRaceTracker: the processing thread and the eviction thread.          *)
(* Source names are byte strings, modelled as sequences of byte values, and  *)
(* compared as Rust compares &str: lexicographically, byte by byte.          *)

\* Number of arrivals the processing thread takes in one run.
MaxRace == 4

\* Matches 10 s or more apart are discarded: 10_000_000 us.
RACE_DISCARD_US == 10000000

\* Retention of the arrival map in microseconds: 10_000_000_000 ns.
RACE_RETENTION_US == 10000000

SrcA == <<65>>

SrcB == <<66>>

SrcAB == <<65, 66>>

RECURSIVE str_le(_, _)
str_le(a, b) ==
    IF a = <<>> THEN TRUE
    ELSE IF b = <<>> THEN FALSE
    ELSE IF Head(a) < Head(b) THEN TRUE
    ELSE IF Head(a) > Head(b) THEN FALSE
    ELSE str_le(Tail(a), Tail(b))

RaceTimes ==
    {Ts(5, 0), Ts(5, 120), Ts(5000, 0), Ts(5120, 0), Ts(10005000, 0)}

RaceClock == {Ts(10005000, 0), Ts(20005001, 0)}

ShredArrival(source, slot, idx, recv_ns) ==
    [source |-> source, slot |-> slot, idx |-> idx, recv_ns |-> recv_ns]

RaceInputs ==
    {ShredArrival(s, 42, 7, t) : s \in {SrcA, SrcB}, t \in RaceTimes}
        \cup {ShredArrival(SrcAB, 42, 7, Ts(5120, 0)),
              ShredArrival(SrcA, 42, 8, Ts(5000, 0)),
              ShredArrival(SrcB, 42, 8, Ts(5120, 0))}

ShredFirstArrival(recv_ns, source, inserted_ns) ==
    [recv_ns |-> recv_ns, source |-> source, inserted_ns |-> inserted_ns]

RaceReservoir_new ==
    [buf |-> [i \in 1..RESERVOIR_CAP |-> 0], len |-> 0, pos |-> 0]

RaceReservoir_push(r, v) ==
    [buf |-> [r.buf EXCEPT ![r.pos + 1] = v],
     pos |-> (r.pos + 1) % RESERVOIR_CAP,
     len |-> IF r.len < RESERVOIR_CAP THEN r.len + 1 ELSE r.len]

ShredPairMetrics_new(source_a, source_b) ==
    [source_a |-> source_a, source_b |-> source_b, a_wins |-> 0, b_wins |-> 0,
     lead_sum_us |-> 0, lead_count |-> 0, reservoir |-> RaceReservoir_new]

\* A record that counts a win only for source_a.
ShredPairMetrics_record_a_only(pm, winner, lead_us) ==
    [pm EXCEPT !.a_wins = IF winner = pm.source_a THEN @ + 1 ELSE @,
               !.lead_sum_us = @ + lead_us,
               !.lead_count = @ + 1,
               !.reservoir = RaceReservoir_push(@, lead_us)]

\* pub fn record(&self, winner: &'static str, lead_us: u64)
ShredPairMetrics_record(pm, winner, lead_us) ==
    [pm EXCEPT !.a_wins = IF winner = pm.source_a THEN @ + 1 ELSE @,
               !.b_wins = IF winner = pm.source_a THEN @ ELSE @ + 1,
               !.lead_sum_us = @ + lead_us,
               !.lead_count = @ + 1,
               !.reservoir = RaceReservoir_push(@, lead_us)]

\* The winner taken to be the arrival processed last.
race_winner_latest(first_source, first_recv_ns, source, recv_ns) == source

\* let winner = if first_recv_ns <= recv_ns { first_source } else { source };
race_winner(first_source, first_recv_ns, source, recv_ns) ==
    IF TsLe(first_recv_ns, recv_ns) THEN first_source ELSE source

\* The pair key in arrival order.
canonical_key_unsorted(first_source, source) == <<first_source, source>>

\* Canonical key: alphabetically sorted so (a,b) == (b,a).
canonical_key(first_source, source) ==
    IF str_le(first_source, source) THEN <<first_source, source>>
    ELSE <<source, first_source>>

NoArrival ==
    [kind |-> "none", source |-> SrcA, key |-> <<0, 0>>, recv_ns |-> Ts(0, 0),
     first |-> None, winner |-> None, lead |-> None, pair |-> None,
     prev_arrivals |-> EmptyMap, prev_pairs |-> EmptyMap, orders |-> {}]

\* A discard test that lets a gap of exactly 10 s through.
is_eviction_artifact_above(lead_us) == lead_us > RACE_DISCARD_US

\* if lead_us >= 10_000_000 { return; }
is_eviction_artifact(lead_us) == lead_us >= RACE_DISCARD_US

\* The matched entry left in the arrival map.
entry_remove_skipped(a, key) == a

\* e.remove()
entry_remove(a, key) == Del(a, key)

\* process_arrival(arrivals, pairs, arrival) with now = metrics::now_ns().
process_arrival(R, arrival, now) ==
    LET key == <<arrival.slot, arrival.idx>>
        source == arrival.source
        recv_ns == arrival.recv_ns
        h0 == [NoArrival EXCEPT !.source = source, !.key = key, !.recv_ns = recv_ns,
                                !.prev_arrivals = R.arrivals, !.prev_pairs = R.pairs,
                                !.orders = R.hr.orders]
    IN  IF key \notin DOMAIN R.arrivals
        THEN [R EXCEPT !.arrivals = Put(@, key, ShredFirstArrival(recv_ns, source, now)),
                       !.hr = [h0 EXCEPT !.kind = "first"]]
        ELSE LET e == R.arrivals[key]
                 h1 == [h0 EXCEPT !.first = Some(e)]
             IN  IF e.source = source
                 THEN [R EXCEPT !.hr = [h1 EXCEPT !.kind = "same"]]
                 ELSE LET lead_us == Abs(DiffDivThousand(e.recv_ns, recv_ns))
                          R1 == [R EXCEPT !.arrivals = entry_remove(@, key)]
                      IN  IF is_eviction_artifact(lead_us)
                          THEN [R1 EXCEPT !.hr = [h1 EXCEPT !.kind = "discarded",
                                                            !.lead = Some(lead_us)]]
                          ELSE LET winner == race_winner(e.source, e.recv_ns,
                                                         source, recv_ns)
                                   pk == canonical_key(e.source, source)
                                   pm == GetOr(R.pairs, pk,
                                               ShredPairMetrics_new(pk[1], pk[2]))
                               IN  [R1 EXCEPT
                                       !.pairs = Put(@, pk,
                                           ShredPairMetrics_record(pm, winner, lead_us)),
                                       !.hr = [h1 EXCEPT
                                           !.kind = "win",
                                           !.winner = Some(winner),
                                           !.lead = Some(lead_us),
                                           !.pair = Some(pk),
                                           !.orders = @ \cup {<<e.source, source>>}]]

\* arrivals_evict.retain(|_, v| v.inserted_ns > cutoff_ns)
retain_arrivals(a, cutoff_ns) ==
    Restrict(a, {k \in DOMAIN a : TsLt(cutoff_ns, a[k].inserted_ns)})

RaceState == [arrivals |-> arrivals, pairs |-> pairs, hr |-> h_race]

\* The processing thread takes one arrival from the channel.
ProcessArrival(arrival) ==
    /\ nrace < MaxRace
    /\ TsLe(arrival.recv_ns, race_now)
    /\ \E R \in {process_arrival(RaceState, arrival, race_now)} :
           /\ arrivals' = R.arrivals
           /\ pairs' = R.pairs
           /\ h_race' = R.hr
    /\ nrace' = nrace + 1
    /\ UNCHANGED <<dvars, mvars, fvars, race_now, ovars>>

\* Time passes.
RaceTick ==
    /\ \E t \in RaceClock : TsLt(race_now, t) /\ race_now' = t
    /\ UNCHANGED <<dvars, mvars, fvars, arrivals, pairs, nrace, h_race, ovars>>

\* One round of the eviction thread.
RaceEvict ==
    /\ arrivals' = retain_arrivals(arrivals, saturating_sub(race_now, RACE_RETENTION_US))
    /\ h_race' = [NoArrival EXCEPT !.kind = "evict", !.prev_arrivals = arrivals,
                                   !.prev_pairs = pairs, !.orders = h_race.orders]
    /\ UNCHANGED <<dvars, mvars, fvars, pairs, race_now, nrace, ovars>>

NextRace ==
    \/ \E arrival \in RaceInputs : ProcessArrival(arrival)
    \/ RaceTick
    \/ RaceEvict

-----------------------------------------------------------------------------
(* ShredReceiver::run_linux (receiver.rs:179-242): the receive loop, with no  *)
(* race tracker attached (race_tx = None), and the decoder's end of the       *)
(* parser channel.                                                            *)

\* The parser channel is bounded(4096); the model narrows it.
ShredChanCap == 2

MaxDatagrams == 4

\* A datagram as the loop reads it: its length and, from 79 bytes on, the u16
\* at bytes 77-78.
Datagram(len, ver) == [len |-> len, ver |-> ver]

Datagrams ==
    {Datagram(0, 0), Datagram(77, 0), Datagram(79, 1), Datagram(79, 2)}

\* Lines 200-207: the shred version filter; shorter datagrams are not tested.
passes_version_filter(version, dg) ==
    ~(version # None /\ dg.len >= 79 /\ dg.ver \notin version)

\* A try_send that reports success whatever happened to the message.
raw_try_send_silent(chan, alive, msg) ==
    IF alive /\ Len(chan) < ShredChanCap
    THEN [chan |-> Append(chan, msg), ok |-> TRUE]
    ELSE [chan |-> chan, ok |-> TRUE]

\* Sender::try_send on the bounded channel: Err when the channel is full or
\* its receiver is gone (line 236).
raw_try_send(chan, alive, msg) ==
    IF alive /\ Len(chan) < ShredChanCap
    THEN [chan |-> Append(chan, msg), ok |-> TRUE]
    ELSE [chan |-> chan, ok |-> FALSE]

NoDatagram == [kind |-> "none", len |-> 0, passed |-> FALSE, sent |-> FALSE, full |-> FALSE]

\* Lines 194-240: one datagram of the batch.
ReceiveDatagram(dg) ==
    /\ ndatagrams < MaxDatagrams
    /\ ndatagrams' = ndatagrams + 1
    /\ IF dg.len = 0 \/ ~passes_version_filter(shred_version, dg)
       THEN /\ h_rx' = [kind |-> "datagram", len |-> dg.len, passed |-> FALSE,
                        sent |-> FALSE, full |-> Len(shred_chan) = ShredChanCap]
            /\ UNCHANGED <<shred_chan, shreds_received, bytes_received,
                           shreds_dropped, h_enqueued>>
       ELSE \E r \in {raw_try_send(shred_chan, shred_rx_alive, dg.len)} :
                /\ shreds_received' = shreds_received + 1
                /\ bytes_received' = bytes_received + dg.len
                /\ shred_chan' = r.chan
                /\ shreds_dropped' = shreds_dropped + (IF r.ok THEN 0 ELSE 1)
                /\ h_enqueued' = h_enqueued + (IF r.ok THEN 1 ELSE 0)
                /\ h_rx' = [kind |-> "datagram", len |-> dg.len, passed |-> TRUE,
                            sent |-> r.ok, full |-> Len(shred_chan) = ShredChanCap]
    /\ UNCHANGED <<shred_version, shred_rx_alive, dvars, mvars, fvars, rvars, pvars, wvars, evars, tvars>>

\* decoder.rs:402: the decoder takes the next raw shred from the channel.
ParserTakes ==
    /\ shred_rx_alive
    /\ shred_chan # <<>>
    /\ shred_chan' = Tail(shred_chan)
    /\ UNCHANGED <<shred_version, shred_rx_alive, shreds_received, bytes_received,
                   shreds_dropped, ndatagrams, h_enqueued, h_rx,
                   dvars, mvars, fvars, rvars, pvars, wvars, evars, tvars>>

\* The decoder thread ends (it panics, fan_in.rs:111-118): its Receiver is
\* dropped and the channel is disconnected.
ParserGone ==
    /\ shred_rx_alive
    /\ shred_rx_alive' = FALSE
    /\ shred_chan' = <<>>
    /\ UNCHANGED <<shred_version, shreds_received, bytes_received,
                   shreds_dropped, ndatagrams, h_enqueued, h_rx,
                   dvars, mvars, fvars, rvars, pvars, wvars, evars, tvars>>

NextReceiver ==
    \/ \E dg \in Datagrams : ReceiveDatagram(dg)
    \/ ParserTakes
    \/ ParserGone

-----------------------------------------------------------------------------
(* parse_data_payload (decoder.rs:132-152) on the bytes of a datagram, and    *)
(* the test helper make_shred (decoder.rs:660-672).  Byte i of the source is  *)
(* element i + 1 of the sequence.                                             *)

VARIANT_OFF == 64
FLAGS_OFF == 85
SIZE_OFF == 86
DATA_OFF == 88
LAST_IN_SLOT_FLAG == 1
LEGACY_DATA_VARIANT == 165

\* make_shred builds a buffer of 1228 bytes; the model narrows it.
ShredBufLen == 91

\* variant & 0xF0
HighNibble(b) == (b \div 16) * 16

make_shred(variant, data, last_in_slot) ==
    LET size_abs == (DATA_OFF + Len(data)) % 65536
    IN  [i \in 1..ShredBufLen |->
            IF i = VARIANT_OFF + 1 THEN variant
            ELSE IF i = FLAGS_OFF + 1 THEN (IF last_in_slot THEN LAST_IN_SLOT_FLAG ELSE 0)
            ELSE IF i = SIZE_OFF + 1 THEN size_abs % 256
            ELSE IF i = SIZE_OFF + 2 THEN (size_abs \div 256) % 256
            ELSE IF DATA_OFF < i /\ i <= DATA_OFF + Len(data) THEN data[i - DATA_OFF]
            ELSE 0]

\* parse_data_payload rejecting a payload that ends at the end of the datagram.
parse_data_payload_bytes_strict(bytes) ==
    IF Len(bytes) < DATA_OFF THEN None
    ELSE LET variant == bytes[VARIANT_OFF + 1]
             size    == bytes[SIZE_OFF + 1] + 256 * bytes[SIZE_OFF + 2]
         IN  IF ~(variant = LEGACY_DATA_VARIANT
                    \/ HighNibble(variant) \in {128, 144, 160, 176})
                 THEN None
             ELSE IF size < DATA_OFF \/ size >= Len(bytes) THEN None
             ELSE Some([last_in_slot |->
                            (bytes[FLAGS_OFF + 1] \div LAST_IN_SLOT_FLAG) % 2 # 0,
                        payload |-> SubSeq(bytes, DATA_OFF + 1, size)])

\* parse_data_payload(bytes: &[u8]) -> Option<(bool, Vec<u8>)>
parse_data_payload_bytes(bytes) ==
    IF Len(bytes) < DATA_OFF THEN None
    ELSE LET variant == bytes[VARIANT_OFF + 1]
             size    == bytes[SIZE_OFF + 1] + 256 * bytes[SIZE_OFF + 2]
         IN  IF ~(variant = LEGACY_DATA_VARIANT
                    \/ HighNibble(variant) \in {128, 144, 160, 176})
                 THEN None
             ELSE IF size < DATA_OFF \/ size > Len(bytes) THEN None
             ELSE Some([last_in_slot |->
                            (bytes[FLAGS_OFF + 1] \div LAST_IN_SLOT_FLAG) % 2 # 0,
                        payload |-> SubSeq(bytes, DATA_OFF + 1, size)])

\* Variant bytes: legacy data, the four Merkle data nibbles, legacy code,
\* Merkle code, unknown.
WireVariants == {165, 128, 146, 160, 191, 90, 68, 0, 192}

WirePayloads == {<<>>, <<104>>, <<104, 105>>, <<104, 105, 33>>}

NoBuild ==
    [made |-> FALSE, altered |-> FALSE, variant |-> 0, data |-> <<>>, last_in_slot |-> FALSE]

NotParsed == [done |-> FALSE, result |-> None]

\* let shred = make_shred(variant, data, last_in_slot);
MakeShred(variant, data, last_in_slot) ==
    /\ wire_bytes = <<>>
    /\ wire_bytes' = make_shred(variant, data, last_in_slot)
    /\ h_built' = [made |-> TRUE, altered |-> FALSE, variant |-> variant,
                   data |-> data, last_in_slot |-> last_in_slot]
    /\ h_parsed' = NotParsed
    /\ UNCHANGED <<dvars, mvars, fvars, rvars, uvars, pvars, evars, tvars>>

\* A datagram of n equal bytes, as in parse_data_payload(&[0u8; 87]).
FilledDatagram(n, b) ==
    /\ wire_bytes = <<>>
    /\ wire_bytes' = [i \in 1..n |-> b]
    /\ h_built' = NoBuild
    /\ h_parsed' = NotParsed
    /\ UNCHANGED <<dvars, mvars, fvars, rvars, uvars, pvars, evars, tvars>>

\* shred[SIZE_OFF] = lo; shred[SIZE_OFF + 1] = hi;
SetSize(lo, hi) ==
    /\ h_built.made /\ ~h_built.altered
    /\ wire_bytes' = [wire_bytes EXCEPT ![SIZE_OFF + 1] = lo, ![SIZE_OFF + 2] = hi]
    /\ h_built' = [h_built EXCEPT !.altered = TRUE]
    /\ h_parsed' = NotParsed
    /\ UNCHANGED <<dvars, mvars, fvars, rvars, uvars, pvars, evars, tvars>>

\* The flags byte with other bits set.
SetFlags(b) ==
    /\ h_built.made /\ ~h_built.altered
    /\ wire_bytes' = [wire_bytes EXCEPT ![FLAGS_OFF + 1] = b]
    /\ h_built' = [h_built EXCEPT !.altered = TRUE]
    /\ h_parsed' = NotParsed
    /\ UNCHANGED <<dvars, mvars, fvars, rvars, uvars, pvars, evars, tvars>>

\* The datagram cut to its first n bytes: &shred[..n].
Truncate(n) ==
    /\ h_built.made /\ ~h_built.altered
    /\ n < Len(wire_bytes)
    /\ wire_bytes' = SubSeq(wire_bytes, 1, n)
    /\ h_built' = [h_built EXCEPT !.altered = TRUE]
    /\ h_parsed' = NotParsed
    /\ UNCHANGED <<dvars, mvars, fvars, rvars, uvars, pvars, evars, tvars>>

\* parse_data_payload(&shred)
ParseDataPayload ==
    /\ ~h_parsed.done
    /\ h_parsed' = [done |-> TRUE, result |-> parse_data_payload_bytes(wire_bytes)]
    /\ UNCHANGED <<wire_bytes, h_built, dvars, mvars, fvars, rvars, uvars, pvars, evars, tvars>>

NextParse ==
    \/ \E v \in WireVariants, d \in WirePayloads, f \in BOOLEAN : MakeShred(v, d, f)
    \/ \E n \in {10, 87, 88} : \E b \in {0, 144} : FilledDatagram(n, b)
    \/ \E lo \in {15, 87, 88, 92} : \E hi \in {0, 39} : SetSize(lo, hi)
    \/ \E b \in {2, 193} : SetFlags(b)
    \/ \E n \in {87, 88, 89, 90} : Truncate(n)
    \/ ParseDataPayload

-----------------------------------------------------------------------------
(* Specifications: one per component; the other components stay idle.        *)

\* The state after construction; builds are the build profiles, filters the
\* filter configurations and versions the fork-version filters the run may have.
InitOf(builds, filters, versions) ==
    /\ slots = EmptyMap
    /\ fec_sets = EmptyMap
    /\ highest_slot = 0
    /\ dmetrics = DecoderMetrics_new
    /\ decoded_chan = <<>>
    /\ decoder_pc = "running"
    /\ overflow_checks \in builds
    /\ nshreds = 0
    /\ h_outcomes = [s \in Slots |-> <<>>]
    /\ h_evicted = {}
    /\ h_created = [s \in Slots |-> 0]
    /\ h_recv = [k \in FecKeys |-> {}]
    /\ h_last = NoShred
    /\ h_lastflag = {}
    /\ h_runs = [k \in FecKeys |-> 0]
    /\ h_sent = [s \in Slots |-> 0]
    /\ smetrics = [s \in FanSources |-> SourceMetrics_new]
    /\ nrec = 0
    /\ h_prev = [s \in FanSources |-> SourceMetrics_new]
    /\ h_rec = NoRecord
    /\ dedup = EmptyMap
    /\ out_chan = <<>>
    /\ filter_nonempty \in filters
    /\ fan_now = Ts(3000200, 0)
    /\ nfan = 0
    /\ h_fan = NoRelay
    /\ h_credits = [k \in Keys |-> <<>>]
    /\ h_res = [k \in Keys |-> <<>>]
    /\ h_firsts = [k \in Keys |-> None]
    /\ arrivals = EmptyMap
    /\ pairs = EmptyMap
    /\ race_now = Ts(10005000, 0)
    /\ nrace = 0
    /\ h_race = NoArrival
    /\ shred_version \in versions
    /\ shred_chan = <<>>
    /\ shred_rx_alive = TRUE
    /\ shreds_received = 0
    /\ bytes_received = 0
    /\ shreds_dropped = 0
    /\ ndatagrams = 0
    /\ h_enqueued = 0
    /\ h_rx = NoDatagram
    /\ h_snap = NoSnapshot
    /\ h_samples = [s \in FanSources |-> <<>>]
    /\ wire_bytes = <<>>
    /\ h_built = NoBuild
    /\ h_parsed = NotParsed
    /\ ent_state = set_first_index(SlotState_new, 0)
    /\ h_ent_txs = <<>>
    /\ last_slot = 1
    /\ rpc_metrics = [slots_attempted |-> 0, slots_complete |-> 0, txs_decoded |-> 0]
    /\ rpc_chan = <<>>
    /\ rpc_pc = "poll"
    /\ npolls = 0
    /\ h_poll = NoPoll
    /\ h_attempted = <<>>
    /\ conn_pc = "connect"
    /\ geyser_metrics = [txs_decoded |-> 0, txs_emitted |-> 0]
    /\ geyser_chan = <<>>
    /\ nends = 0
    /\ nupdates = 0
    /\ h_attempts = 0
    /\ h_run = "none"
    /\ recv_pc = "running"
    /\ raw_chan = 0
    /\ decode_pc = "running"
    /\ inner_chan = 0
    /\ relay_pc = "running"
    /\ evict_pc = "sleeping"
    /\ out_count = 0
    /\ nfed = 0
    /\ lk_owner = [l \in Locks |-> Free]
    /\ lk_th = [t \in LockThreads |-> IdleThread]
    /\ lk_first = EmptyMap

SpecDecoder ==
    InitOf(BOOLEAN, {FALSE}, {None}) /\ [][NextDecoder]_vars

\* The decoder under a feed of ever new slots.
SpecWindow ==
    InitOf(BOOLEAN, {FALSE}, {None}) /\ [][NextWindow]_vars

\* The decoder under coding shreds that disagree on the shape of a FEC set.
SpecShapes ==
    InitOf(BOOLEAN, {FALSE}, {None}) /\ [][NextShapes]_vars

\* The decoder on slot numbers up to u64::MAX.
SpecExpiry ==
    InitOf(BOOLEAN, {FALSE}, {None}) /\ [][NextExpiry]_vars

\* The decoder under a feed that keeps advancing: as long as the decoder thread
\* runs, a shred of a later slot is eventually taken from the channel.
SpecDecoderLive ==
    /\ InitOf(BOOLEAN, {FALSE}, {None})
    /\ [][NextDecoder \/ FeedAdvances]_vars
    /\ WF_vars(FeedAdvances)

SpecMetrics ==
    InitOf({TRUE}, {FALSE}, {None}) /\ [][NextMetrics]_vars

SpecFanIn ==
    InitOf({TRUE}, BOOLEAN, {None}) /\ [][NextFanIn]_vars

SpecRace ==
    InitOf({TRUE}, {FALSE}, {None}) /\ [][NextRace]_vars

-----------------------------------------------------------------------------
(* RpcSource (rpc_source.rs): the polling loop of the baseline source.        *)

\* Number of polls in one run.
MaxPolls == 3

\* The highest slot the node reports.
MaxTip == 4

\* What get_slot returns: Err (None) or the tip.
TipResults == {None} \cup {Some(t) : t \in 0..MaxTip}

\* process_slot(slot): ok tells whether get_block_with_config returned the
\* block; a block holds one decodable transaction, named by its slot.
process_slot(P, slot, ok) ==
    LET P1 == [P EXCEPT !.m.slots_attempted = @ + 1,
                        !.ha = Append(@, slot)]
    IN  IF ~ok THEN P1
        ELSE [P1 EXCEPT !.chan = try_send_all(@, <<slot>>),
                        !.m.slots_complete = @ + 1,
                        !.m.txs_decoded = @ + 1]

\* A loop that stops at the first slot whose fetch fails.
RECURSIVE poll_slots_until_error(_, _, _, _)
poll_slots_until_error(P, slot, current_slot, failing) ==
    IF slot > current_slot \/ slot \in failing THEN P
    ELSE poll_slots_until_error(process_slot(P, slot, TRUE), slot + 1,
                                current_slot, failing)

\* for slot in (self.last_slot + 1)..=current_slot { process_slot(slot) }
RECURSIVE poll_slots(_, _, _, _)
poll_slots(P, slot, current_slot, failing) ==
    IF slot > current_slot THEN P
    ELSE poll_slots(process_slot(P, slot, slot \notin failing), slot + 1,
                    current_slot, failing)

\* poll_new_slots: tip is what get_slot returned and failing the slots whose
\* block fetch returns an error.  The result says whether it returned Err.
poll_new_slots(P, tip, failing) ==
    IF tip = None THEN [P EXCEPT !.err = TRUE]
    ELSE LET current_slot == CHOOSE t \in tip : TRUE
         IN  IF current_slot <= P.last_slot THEN P
             ELSE [poll_slots(P, P.last_slot + 1, current_slot, failing)
                      EXCEPT !.last_slot = current_slot]

PollerState ==
    [last_slot |-> last_slot, m |-> rpc_metrics, chan |-> rpc_chan,
     ha |-> h_attempted, err |-> FALSE]

\* One turn of the loop of run(): poll_new_slots, then the 500 ms back-off
\* after an error, or straight to the 100 ms sleep.
PollNewSlots(tip, failing) ==
    /\ rpc_pc = "poll"
    /\ npolls < MaxPolls
    /\ \E P \in {poll_new_slots(PollerState, tip, failing)} :
           /\ last_slot' = P.last_slot
           /\ rpc_metrics' = P.m
           /\ rpc_chan' = P.chan
           /\ h_attempted' = P.ha
           /\ rpc_pc' = IF P.err THEN "backoff" ELSE "sleep"
    /\ h_poll' = [tip |-> tip, before |-> last_slot, failed |-> failing,
                  polled |-> TRUE]
    /\ npolls' = npolls + 1
    /\ UNCHANGED <<dvars, mvars, fvars, rvars, uvars, pvars, wvars, evars, gvars, kvars, lvars>>

\* std::thread::sleep(Duration::from_millis(500)) in the Err arm.
BackOff ==
    /\ rpc_pc = "backoff"
    /\ rpc_pc' = "sleep"
    /\ UNCHANGED <<last_slot, rpc_metrics, rpc_chan, npolls, h_poll, h_attempted>>
    /\ UNCHANGED <<dvars, mvars, fvars, rvars, uvars, pvars, wvars, evars, gvars, kvars, lvars>>

\* std::thread::sleep(Duration::from_millis(100)) at the end of each turn.
Sleep ==
    /\ rpc_pc = "sleep"
    /\ rpc_pc' = "poll"
    /\ UNCHANGED <<last_slot, rpc_metrics, rpc_chan, npolls, h_poll, h_attempted>>
    /\ UNCHANGED <<dvars, mvars, fvars, rvars, uvars, pvars, wvars, evars, gvars, kvars, lvars>>

\* The slots a poll with this tip fetches: those whose fetch can fail.
FetchedSlots(tip) == UNION {(last_slot + 1)..t : t \in tip}

NextPoller ==
    \/ \E tip \in TipResults : \E failing \in SUBSET FetchedSlots(tip) :
           PollNewSlots(tip, failing)
    \/ BackOff
    \/ Sleep

\* The polling loop; a sleeping thread wakes up.
SpecPoller ==
    /\ InitOf({TRUE}, {FALSE}, {None})
    /\ [][NextPoller]_vars
    /\ WF_vars(BackOff) /\ WF_vars(Sleep)

-----------------------------------------------------------------------------
(* GeyserTxSource (geyser_source.rs): the reconnect loop around run_geyser.   *)
(* JitoShredstreamSource::start (jito_source.rs:97-110) is the same loop.     *)

\* Number of times a connection attempt fails or a stream ends in one run.
MaxEnds == 3

\* Number of stream messages in one run.
MaxUpdates == 3

\* How run_geyser returns: Err from connect or subscribe, Err from a stream
\* message, or Ok(()) when the stream ends.
RunResults == {"connect_err", "stream_err", "eof"}

\* Stream messages: a transaction update with a 64-byte signature, one whose
\* signature has another length, and an update of another kind.
Updates == {"tx", "tx_short_sig", "other"}

\* A loop that leaves when run_geyser returns Ok(()).
after_run_geyser_ok_exits(result) == IF result = "eof" THEN "exited" ELSE "wait"

\* The body of the loop after run_geyser returned: log an Err, then sleep 5 s
\* in every case.
after_run_geyser(result) == "wait"

\* run_geyser is called: the connection attempt fails or the stream opens.
Connect(ok) ==
    /\ conn_pc = "connect"
    /\ ~ok => nends < MaxEnds
    /\ conn_pc' = IF ok THEN "streaming" ELSE after_run_geyser("connect_err")
    /\ nends' = IF ok THEN nends ELSE nends + 1
    /\ h_run' = IF ok THEN h_run ELSE "connect_err"
    /\ h_attempts' = h_attempts + 1
    /\ UNCHANGED <<geyser_metrics, geyser_chan, nupdates>>
    /\ UNCHANGED <<dvars, mvars, fvars, rvars, uvars, pvars, wvars, evars, qvars, kvars, lvars>>

\* One turn of `while let Some(msg) = stream.next().await` with Some(Ok(msg)).
StreamUpdate(u) ==
    /\ conn_pc = "streaming"
    /\ nupdates < MaxUpdates
    /\ geyser_metrics' =
          [txs_decoded |-> geyser_metrics.txs_decoded + (IF u = "other" THEN 0 ELSE 1),
           txs_emitted |-> geyser_metrics.txs_emitted + (IF u = "tx" THEN 1 ELSE 0)]
    /\ geyser_chan' = IF u = "tx" THEN try_send_all(geyser_chan, <<nupdates>>)
                      ELSE geyser_chan
    /\ nupdates' = nupdates + 1
    /\ UNCHANGED <<conn_pc, nends, h_attempts, h_run>>
    /\ UNCHANGED <<dvars, mvars, fvars, rvars, uvars, pvars, wvars, evars, qvars, kvars, lvars>>

\* The stream yields Some(Err(_)) or None: run_geyser returns.
StreamEnds(result) ==
    /\ conn_pc = "streaming"
    /\ nends < MaxEnds
    /\ conn_pc' = after_run_geyser(result)
    /\ nends' = nends + 1
    /\ h_run' = result
    /\ UNCHANGED <<geyser_metrics, geyser_chan, nupdates, h_attempts>>
    /\ UNCHANGED <<dvars, mvars, fvars, rvars, uvars, pvars, wvars, evars, qvars, kvars, lvars>>

\* tokio::time::sleep(5 s) is over: the loop starts its next turn.
Reconnect ==
    /\ conn_pc = "wait"
    /\ conn_pc' = "connect"
    /\ UNCHANGED <<geyser_metrics, geyser_chan, nends, nupdates, h_attempts, h_run>>
    /\ UNCHANGED <<dvars, mvars, fvars, rvars, uvars, pvars, wvars, evars, qvars, kvars, lvars>>

NextStream ==
    \/ \E ok \in BOOLEAN : Connect(ok)
    \/ \E u \in Updates : StreamUpdate(u)
    \/ \E result \in {"stream_err", "eof"} : StreamEnds(result)
    \/ Reconnect

\* The streaming source; the sleep ends and a connection attempt returns.
SpecStream ==
    /\ InitOf({TRUE}, {FALSE}, {None})
    /\ [][NextStream]_vars
    /\ WF_vars(Reconnect) /\ WF_vars(\E ok \in BOOLEAN : Connect(ok))

-----------------------------------------------------------------------------
(* The threads FanInSource::start returns handles for, for one shred source: *)
(* receiver, decoder, relay and fan-in-evict, with the channels between them *)
(* reduced to the number of items they hold.                                 *)

\* Number of shreds the receiver takes before it ends.
MaxFed == 3

\* try_send of n items on a bounded channel holding c items.
try_send_count(c, n) == Min(c + n, ChanCap)

\* The receiver enqueues a shred (or drops it when the channel is full).
ReceiverFeeds ==
    /\ recv_pc = "running"
    /\ nfed < MaxFed
    /\ raw_chan' = try_send_count(raw_chan, 1)
    /\ nfed' = nfed + 1
    /\ UNCHANGED <<recv_pc, decode_pc, inner_chan, relay_pc, evict_pc, out_count>>
    /\ UNCHANGED <<dvars, mvars, fvars, rvars, uvars, pvars, wvars, evars, qvars, gvars, lvars>>

\* The receiver thread ends: shred_tx, the only sender of the raw-shred
\* channel, is dropped.
ReceiverEnds ==
    /\ recv_pc = "running"
    /\ recv_pc' = "done"
    /\ UNCHANGED <<raw_chan, decode_pc, inner_chan, relay_pc, evict_pc, out_count, nfed>>
    /\ UNCHANGED <<dvars, mvars, fvars, rvars, uvars, pvars, wvars, evars, qvars, gvars, lvars>>

\* One turn of `for raw_shred in &self.rx`: the shred yields n transactions,
\* sent with try_send; or, in a build with overflow checks, an arithmetic
\* overflow in the turn makes the thread panic.
DecoderTakes(n, overflows) ==
    /\ decode_pc = "running"
    /\ raw_chan > 0
    /\ raw_chan' = raw_chan - 1
    /\ IF overflows /\ overflow_checks
       THEN decode_pc' = "panicked" /\ inner_chan' = inner_chan
       ELSE decode_pc' = decode_pc /\ inner_chan' = try_send_count(inner_chan, n)
    /\ UNCHANGED <<recv_pc, relay_pc, evict_pc, out_count, nfed>>
    /\ UNCHANGED <<dvars, mvars, fvars, rvars, uvars, pvars, wvars, evars, qvars, gvars, lvars>>

\* The iterator over self.rx ends: the channel is empty and disconnected.
\* run() returns and the decoder's sender of the inner channel is dropped.
DecoderEnds ==
    /\ decode_pc = "running"
    /\ raw_chan = 0 /\ recv_pc = "done"
    /\ decode_pc' = "done"
    /\ UNCHANGED <<recv_pc, raw_chan, inner_chan, relay_pc, evict_pc, out_count, nfed>>
    /\ UNCHANGED <<dvars, mvars, fvars, rvars, uvars, pvars, wvars, evars, qvars, gvars, lvars>>

\* One turn of `for decoded in &inner_rx`: the transaction is dropped
\* (filtered or duplicate) or forwarded with try_send.
RelayTakes(forward) ==
    /\ relay_pc = "running"
    /\ inner_chan > 0
    /\ inner_chan' = inner_chan - 1
    /\ out_count' = IF forward THEN try_send_count(out_count, 1) ELSE out_count
    /\ UNCHANGED <<recv_pc, raw_chan, decode_pc, relay_pc, evict_pc, nfed>>
    /\ UNCHANGED <<dvars, mvars, fvars, rvars, uvars, pvars, wvars, evars, qvars, gvars, lvars>>

\* The iterator over inner_rx ends: the relay thread's closure returns.
RelayEnds ==
    /\ relay_pc = "running"
    /\ inner_chan = 0 /\ decode_pc # "running"
    /\ relay_pc' = "done"
    /\ UNCHANGED <<recv_pc, raw_chan, decode_pc, inner_chan, evict_pc, out_count, nfed>>
    /\ UNCHANGED <<dvars, mvars, fvars, rvars, uvars, pvars, wvars, evars, qvars, gvars, lvars>>

\* An eviction thread that leaves its loop once the relay thread is done.
evict_loop_until_drained(pc, relay_at) ==
    IF relay_at = "done" THEN "done"
    ELSE IF pc = "sleeping" THEN "retaining" ELSE "sleeping"

\* loop { sleep(60 s); dedup_evict.retain(..) }: the next position of the
\* thread; the loop has no exit.
evict_loop(pc, relay_at) == IF pc = "sleeping" THEN "retaining" ELSE "sleeping"

\* The eviction thread moves on.
EvictLoop ==
    /\ evict_pc # "done"
    /\ evict_pc' = evict_loop(evict_pc, relay_pc)
    /\ UNCHANGED <<recv_pc, raw_chan, decode_pc, inner_chan, relay_pc, out_count, nfed>>
    /\ UNCHANGED <<dvars, mvars, fvars, rvars, uvars, pvars, wvars, evars, qvars, gvars, lvars>>

\* The consumer takes a transaction from the output channel.
ConsumerTakes ==
    /\ out_count > 0
    /\ out_count' = out_count - 1
    /\ UNCHANGED <<recv_pc, raw_chan, decode_pc, inner_chan, relay_pc, evict_pc, nfed>>
    /\ UNCHANGED <<dvars, mvars, fvars, rvars, uvars, pvars, wvars, evars, qvars, gvars, lvars>>

DecoderStep == (\E n \in 0..2 : \E o \in BOOLEAN : DecoderTakes(n, o)) \/ DecoderEnds

RelayStep == (\E f \in BOOLEAN : RelayTakes(f)) \/ RelayEnds

NextShutdown ==
    \/ ReceiverFeeds
    \/ ReceiverEnds
    \/ DecoderStep
    \/ RelayStep
    \/ EvictLoop
    \/ ConsumerTakes

\* The threads keep running while they can take a step.
SpecShutdown ==
    /\ InitOf(BOOLEAN, {FALSE}, {None})
    /\ [][NextShutdown]_vars
    /\ WF_vars(DecoderStep) /\ WF_vars(RelayStep) /\ WF_vars(EvictLoop)

-----------------------------------------------------------------------------
(* The locks of the fan-in.  dedup.entry(sig) takes the write lock of the    *)
(* shard the signature hashes to and the Entry keeps it until it is dropped; *)
(* retain takes the write lock of one shard after the other; the reservoir   *)
(* of a source's metrics is behind a Mutex.  A thread that called lock() and *)
(* has not got the lock is at "want".                                        *)

\* The shard a signature hashes to.
ShardOf(k) == k % NumShards

\* The locks snapshot() would take if it looked into the dedup map while it
\* holds the reservoir.
snapshot_locks_reading_dedup(s) == <<Res(s), Shard(0)>>

\* let res = self.lead_time_reservoir.lock().unwrap(); res.percentiles()
\* The locks snapshot() takes while it holds the reservoir, in order.
snapshot_locks(s) == <<Res(s)>>

Release(owner, ls) == [l \in Locks |-> IF l \in ls THEN Free ELSE owner[l]]

LocksUnchanged ==
    UNCHANGED <<dvars, mvars, fvars, rvars, uvars, pvars, wvars, evars, qvars, gvars,
                kvars>>

\* lock() or the shard's write() returns: the thread has the lock it wanted.
Acquire(t) ==
    /\ lk_th[t].at = "want"
    /\ \E l \in lk_th[t].want :
           /\ lk_owner[l] = Free
           /\ lk_owner' = [lk_owner EXCEPT ![l] = t]
           /\ lk_th' = [lk_th EXCEPT ![t].at = "holding", ![t].want = None,
                                     ![t].held = Append(@, l)]
    /\ UNCHANGED lk_first
    /\ LocksUnchanged

\* match dedup_clone.entry(sig_bytes): relay thread t asks for the shard.
RelayEntry(t, k) ==
    /\ lk_th[t].at = "idle"
    /\ lk_th' = [lk_th EXCEPT ![t] = [IdleThread EXCEPT !.at = "want",
                                                         !.want = Some(Shard(ShardOf(k))),
                                                         !.key = k]]
    /\ UNCHANGED <<lk_owner, lk_first>>
    /\ LocksUnchanged

\* Entry::Vacant: e.insert(..) and the returned reference is dropped at the
\* end of the statement; try_send does not block.
RelayVacant(t) ==
    /\ lk_th[t].at = "holding" /\ Len(lk_th[t].held) = 1
    /\ lk_th[t].key \notin DOMAIN lk_first
    /\ lk_first' = Put(lk_first, lk_th[t].key, t)
    /\ lk_owner' = Release(lk_owner, {lk_th[t].held[1]})
    /\ lk_th' = [lk_th EXCEPT ![t] = IdleThread]
    /\ LocksUnchanged

\* Entry::Occupied: with a sample to record the thread calls
\* record_lead_time_us on the metrics of the first arrival (a shred source)
\* or on its own, and asks for that reservoir while it holds the entry;
\* rpc vs rpc, or a sample out of range, ends the arm.
RelayOccupied(t, in_range) ==
    /\ lk_th[t].at = "holding" /\ Len(lk_th[t].held) = 1
    /\ lk_th[t].key \in DOMAIN lk_first
    /\ LET first == lk_first[lk_th[t].key]
           target == IF ~is_rpc(first) THEN first ELSE t
       IN  IF in_range /\ ~(is_rpc(first) /\ is_rpc(t))
           THEN /\ lk_th' = [lk_th EXCEPT ![t].at = "want",
                                          ![t].want = Some(Res(target)),
                                          ![t].src = target]
                /\ UNCHANGED lk_owner
           ELSE /\ lk_th' = [lk_th EXCEPT ![t] = IdleThread]
                /\ lk_owner' = Release(lk_owner, {lk_th[t].held[1]})
    /\ UNCHANGED lk_first
    /\ LocksUnchanged

\* self.lead_time_reservoir.lock().unwrap().push(us): the guard is dropped
\* at the end of the statement.
RelayPushed(t) ==
    /\ lk_th[t].at = "holding" /\ Len(lk_th[t].held) = 2
    /\ lk_owner' = Release(lk_owner, {lk_th[t].held[2]})
    /\ lk_th' = [lk_th EXCEPT ![t].at = "recorded", ![t].held = <<@[1]>>]
    /\ UNCHANGED lk_first
    /\ LocksUnchanged

\* The end of the Entry::Occupied arm drops the entry.
RelayEndArm(t) ==
    /\ lk_th[t].at = "recorded"
    /\ lk_owner' = Release(lk_owner, {lk_th[t].held[1]})
    /\ lk_th' = [lk_th EXCEPT ![t] = IdleThread]
    /\ UNCHANGED lk_first
    /\ LocksUnchanged

\* The eviction thread wakes up and calls retain, which starts with shard 0.
EvictWake ==
    /\ lk_th["evict"].at = "idle"
    /\ lk_th' = [lk_th EXCEPT !["evict"] = [IdleThread EXCEPT !.at = "want",
                                                             !.want = Some(Shard(0))]]
    /\ UNCHANGED <<lk_owner, lk_first>>
    /\ LocksUnchanged

\* retain has filtered one shard: the entries in gone were too old; it unlocks
\* the shard and goes on to the next one.
EvictRetained(gone) ==
    /\ lk_th["evict"].at = "holding"
    /\ LET i == lk_th["evict"].key
       IN  /\ gone \subseteq {k \in DOMAIN lk_first : ShardOf(k) = i}
           /\ lk_first' = Restrict(lk_first, DOMAIN lk_first \ gone)
           /\ lk_owner' = Release(lk_owner, {Shard(i)})
           /\ lk_th' = [lk_th EXCEPT !["evict"] =
                  IF i + 1 < NumShards
                  THEN [IdleThread EXCEPT !.at = "want", !.want = Some(Shard(i + 1)),
                                          !.key = i + 1]
                  ELSE IdleThread]
    /\ LocksUnchanged

\* A reader calls snapshot() on the metrics of source s.
ReaderSnapshot(s) ==
    /\ lk_th["reader"].at = "idle"
    /\ lk_th' = [lk_th EXCEPT !["reader"] = [IdleThread EXCEPT
                     !.at = "want", !.want = Some(snapshot_locks(s)[1]), !.src = s]]
    /\ UNCHANGED <<lk_owner, lk_first>>
    /\ LocksUnchanged

\* The reader goes on inside snapshot(): the next lock, or the end of the
\* block that holds the reservoir.
ReaderStep ==
    /\ lk_th["reader"].at = "holding"
    /\ LET r == lk_th["reader"]
           ls == snapshot_locks(r.src)
       IN  IF Len(r.held) < Len(ls)
           THEN /\ lk_th' = [lk_th EXCEPT !["reader"].at = "want",
                                          !["reader"].want = Some(ls[Len(r.held) + 1])]
                /\ UNCHANGED lk_owner
           ELSE /\ lk_th' = [lk_th EXCEPT !["reader"] = IdleThread]
                /\ lk_owner' = Release(lk_owner, {r.held[n] : n \in 1..Len(r.held)})
    /\ UNCHANGED lk_first
    /\ LocksUnchanged

NextLocks ==
    \/ \E t \in RelayThreads : \E k \in LockKeys : RelayEntry(t, k)
    \/ \E t \in LockThreads : Acquire(t)
    \/ \E t \in RelayThreads : RelayVacant(t)
    \/ \E t \in RelayThreads : \E in_range \in BOOLEAN : RelayOccupied(t, in_range)
    \/ \E t \in RelayThreads : RelayPushed(t)
    \/ \E t \in RelayThreads : RelayEndArm(t)
    \/ EvictWake
    \/ \E gone \in SUBSET LockKeys : EvictRetained(gone)
    \/ \E s \in RelayThreads : ReaderSnapshot(s)
    \/ ReaderStep

SpecLocks == InitOf(BOOLEAN, {FALSE}, {None}) /\ [][NextLocks]_vars

\* Tokens of a byte stream: count words 0, 1, 2 and two transactions.
StreamTokens == {0, 1, 2, -1, -2}

\* The next bytes of the slot's stream arrive (one or two tokens, as flushed
\* from its shreds) and the decoder calls try_deserialize.
StreamArrives(chunk) ==
    /\ Len(ent_state.entry_buf) + Len(chunk) <= MaxStream
    /\ \E de \in {try_deserialize([ent_state EXCEPT !.entry_buf = @ \o chunk])} :
           /\ ent_state' = de.st
           /\ h_ent_txs' = h_ent_txs \o de.txs
    /\ UNCHANGED <<dvars, mvars, fvars, rvars, uvars, pvars, wvars, tvars>>

NextEntries ==
    \E chunk \in {<<a>> : a \in StreamTokens}
                    \cup {<<a, b>> : a \in StreamTokens, b \in StreamTokens} :
        StreamArrives(chunk)

\* try_deserialize under every splitting of a slot's byte stream.
SpecEntries ==
    InitOf({TRUE}, {FALSE}, {None}) /\ [][NextEntries]_vars

SpecReceiver ==
    InitOf({TRUE}, {FALSE}, {None, Some(1)}) /\ [][NextReceiver]_vars

SpecParse ==
    InitOf({TRUE}, {FALSE}, {None}) /\ [][NextParse]_vars

-----------------------------------------------------------------------------
(* Properties of the decoder.                                                *)

OutcomeTotal ==
    dmetrics.slots_complete + dmetrics.slots_partial + dmetrics.slots_dropped

RECURSIVE SumLen(_, _)
SumLen(f, S) ==
    IF S = {} THEN 0
    ELSE LET x == CHOOSE y \in S : TRUE IN Len(f[x]) + SumLen(f, S \ {x})

C3_SeenAtMostExpected ==
    (dmetrics.coverage_shreds_expected > 0 /\ dmetrics.coverage_shreds_seen > 0)
        => dmetrics.coverage_shreds_seen <= dmetrics.coverage_shreds_expected

\* The shreds of FEC set fec received under key k: data positions below
\* num_data and the coding positions accepted under the set's shape.
ReceivedOfSet(k, fec) ==
    {p \in h_recv[k] : p < fec.num_data}

\* C9: once num_data distinct shreds of a live FEC set have been received,
\* the decoder has run the reconstruction for the set.
C9_ReconstructsOnceEnoughShreds ==
    \A k \in FecKeys :
        (decoder_pc = "running" /\ k[1] \in DOMAIN fec_sets
            /\ k[2] \in DOMAIN fec_sets[k[1]]) =>
            LET fec == fec_sets[k[1]][k[2]]
            IN  Cardinality(ReceivedOfSet(k, fec)) >= fec.num_data => fec.recovered

\* C10, first half: an anchored slot's cursor is never below its anchor.
C10_CursorAtLeastAnchor ==
    \A s \in DOMAIN slots :
        slots[s].h_anchor # -1 => slots[s].next_contiguous >= slots[s].h_anchor

\* C10, second half: once anchored, the cursor only moves forward.
C10_CursorMonotone ==
    \A s \in (DOMAIN slots) \cap (DOMAIN slots') :
        slots[s].h_anchor # -1 => slots'[s].next_contiguous >= slots[s].next_contiguous

\* C10: for any slot, once anchored, next_contiguous >= anchor in every
\* reachable state, and next_contiguous never decreases afterwards.
C10_CursorNeverBelowAnchor ==
    [](C10_CursorAtLeastAnchor) /\ [][C10_CursorMonotone]_vars

-----------------------------------------------------------------------------
(* Properties of the lead-time metrics.                                      *)

InRange(us) == -500000 <= us /\ us <= 2000000

\* The sample a reservoir took last.
LastPushed(r) == r.buf[((r.pos + RESERVOIR_CAP - 1) % RESERVOIR_CAP) + 1]

\* Metrics now are metrics before with one more lead-time sample us.
Accepted(before, now, us) ==
    /\ now.lead_time_count = before.lead_time_count + 1
    /\ now.lead_wins = before.lead_wins + (IF us > 0 THEN 1 ELSE 0)
    /\ now.lead_time_sum_us = before.lead_time_sum_us + us
    /\ now.lead_time_reservoir.len =
           (IF before.lead_time_reservoir.len < RESERVOIR_CAP
            THEN before.lead_time_reservoir.len + 1 ELSE RESERVOIR_CAP)
    /\ LastPushed(now.lead_time_reservoir) = us

\* The lead-time fields of two metrics records are the same.
SameLead(before, now) ==
    /\ now.lead_time_count = before.lead_time_count
    /\ now.lead_wins = before.lead_wins
    /\ now.lead_time_sum_us = before.lead_time_sum_us
    /\ now.lead_time_reservoir = before.lead_time_reservoir

\* C6: record_lead_time_us accepts a sample iff -500 000 <= us <= 2 000 000:
\* every sample held in a reservoir lies in that range, a call with a sample
\* in the range counts it, and a call with a sample outside the range leaves
\* lead_time_count, lead_wins, lead_time_sum_us and the reservoir unchanged.
C6_AcceptsIffInRange ==
    /\ \A s \in FanSources :
           \A i \in 1..smetrics[s].lead_time_reservoir.len :
               InRange(smetrics[s].lead_time_reservoir.buf[i])
    /\ h_rec.called =>
           /\ \A s \in FanSources \ {h_rec.source} : smetrics[s] = h_prev[s]
           /\ IF InRange(h_rec.us)
              THEN Accepted(h_prev[h_rec.source], smetrics[h_rec.source], h_rec.us)
              ELSE SameLead(h_prev[h_rec.source], smetrics[h_rec.source])

\* A sample on the upper bound was accepted into a reservoir that had wrapped,
\* after which a sample just outside the range was rejected.
C6_Witness ==
    /\ h_rec.called /\ h_rec.us = 2000001
    /\ \E s \in FanSources :
           /\ smetrics[s].lead_time_count = RESERVOIR_CAP + 1
           /\ \E i \in 1..RESERVOIR_CAP : smetrics[s].lead_time_reservoir.buf[i] = 2000000
           /\ \E i \in 1..RESERVOIR_CAP : smetrics[s].lead_time_reservoir.buf[i] = -500000

-----------------------------------------------------------------------------
(* Properties of the fan-in.                                                 *)

\* A sequence of credits is one "first" followed by duplicates only.
FirstThenDuplicates(cs) ==
    Len(cs) > 0 =>
        /\ cs[1].credit = "first"
        /\ \A i \in 2..Len(cs) : cs[i].credit = "dup"

\* The number of credits c given to source s for key k.
CreditsOf(s, k, c) ==
    Cardinality({i \in 1..Len(h_credits[k]) : h_credits[k][i] = Credit(s, c)})

RECURSIVE SumCredits(_, _, _)
SumCredits(s, K, c) ==
    IF K = {} THEN 0
    ELSE LET k == CHOOSE x \in K : TRUE
         IN  CreditsOf(s, k, c) + SumCredits(s, K \ {k}, c)

\* The counters txs_first and txs_duplicate hold the credits given, no more.
CountersAreCredits ==
    \A s \in FanSources :
        /\ smetrics[s].txs_first = SumCredits(s, Keys, "first")
        /\ smetrics[s].txs_duplicate = SumCredits(s, Keys, "dup")

\* C2: for any signature key k exactly one source is credited with txs_first,
\* and every subsequent observer of k is credited with txs_duplicate.
C2_OneFirstPerKey ==
    /\ CountersAreCredits
    /\ \A k \in Keys : FirstThenDuplicates(h_credits[k])

\* C2 as amended: from the moment k enters the dedup map until the eviction
\* thread removes it, exactly one source is credited with txs_first for k (the
\* arrival that found it vacant) and every later observer with txs_duplicate.
C2_OneFirstPerResidency ==
    /\ CountersAreCredits
    /\ \A k \in Keys :
           /\ FirstThenDuplicates(h_res[k])
           /\ (k \in DOMAIN dedup) <=> (h_res[k] # <<>>)
           /\ k \in DOMAIN dedup => h_res[k][1].source = dedup[k].metrics

\* A key was evicted and entered the map again: its second residency has a
\* first arrival and a duplicate of its own.
C2_Witness ==
    \E k \in Keys :
        /\ Len(h_res[k]) >= 2
        /\ Len(h_credits[k]) > Len(h_res[k])

\* q is the quotient of (a - b) nanoseconds by 1000, rounded toward zero.
IsMicrosOf(q, a, b) ==
    LET d == (a.us - b.us) - q
        rem == d * 1000 + (a.ns - b.ns)
    IN  /\ -1 <= d /\ d <= 1
        /\ -1000 < rem /\ rem < 1000
        /\ q > 0 => rem >= 0
        /\ q < 0 => rem <= 0

\* The last relay step found a first arrival for the key of its transaction.
IsDuplicateStep == h_fan.kind = "dup"

FirstOfStep == CHOOSE f \in h_fan.first : TRUE

\* The sample with which record_lead_time_us was called in the last relay step
\* is lead, it went to the metrics of source target, and no other source's
\* lead-time fields changed.
RecordedOn(target, lead) ==
    /\ h_fan.lead = Some(lead)
    /\ h_fan.target = Some(target)
    /\ IF InRange(lead)
       THEN Accepted(h_prev[target], smetrics[target], lead)
       ELSE SameLead(h_prev[target], smetrics[target])
    /\ \A s \in FanSources \ {target} : SameLead(h_prev[s], smetrics[s])

\* C4: when the first arrival and a later arrival of a signature both come
\* from shred-tier sources, the lead sample is second_ts - first_ts in
\* microseconds and is recorded on the second (later-arriving) source.
C4_ShredShredLeadOnSecond ==
    (IsDuplicateStep /\ ~FirstOfStep.is_rpc /\ ~is_rpc(h_fan.source)) =>
        \E lead \in h_fan.lead :
            /\ IsMicrosOf(lead, h_fan.recv_ns, FirstOfStep.recv_ns)
            /\ RecordedOn(h_fan.source, lead)

\* C5: when one arrival of a signature is shred-tier and the other baseline,
\* in either order, the lead sample is baseline_ts - shred_ts in microseconds
\* and is handed to the shred-tier source's metrics: the first arrival's source
\* when the shred came first, the current source when the baseline came first.
\* Shred at 100 000 ns then baseline at 200 000 ns credits +100 us to the shred
\* source, with txs_first = 1, txs_duplicate = 0 there and the reverse on the
\* baseline.
C5_ShredBaselineLead ==
    /\ (IsDuplicateStep /\ ~FirstOfStep.is_rpc /\ is_rpc(h_fan.source)) =>
           \E lead \in h_fan.lead :
               /\ IsMicrosOf(lead, h_fan.recv_ns, FirstOfStep.recv_ns)
               /\ RecordedOn(FirstOfStep.metrics, lead)
    /\ (IsDuplicateStep /\ FirstOfStep.is_rpc /\ ~is_rpc(h_fan.source)) =>
           \E lead \in h_fan.lead :
               /\ IsMicrosOf(lead, FirstOfStep.recv_ns, h_fan.recv_ns)
               /\ RecordedOn(h_fan.source, lead)
    /\ (/\ nfan = 2
        /\ h_credits[1] = <<Credit("a", "first"), Credit("rpc", "dup")>>
        /\ h_credits[2] = <<>>
        /\ IsDuplicateStep
        /\ FirstOfStep.recv_ns = Ts(100, 0) /\ h_fan.recv_ns = Ts(200, 0)) =>
           /\ h_fan.lead = Some(100) /\ h_fan.target = Some("a")
           /\ smetrics["a"].txs_first = 1 /\ smetrics["a"].txs_duplicate = 0
           /\ smetrics["rpc"].txs_first = 0 /\ smetrics["rpc"].txs_duplicate = 1
           /\ smetrics["a"].lead_time_count = 1 /\ smetrics["a"].lead_time_sum_us = 100
           /\ smetrics["rpc"].lead_time_count = 0

\* A shred-tier arrival found a baseline arrival that was 99 500 ns earlier:
\* the shred source holds the sample -99 us.
C5_Witness ==
    /\ IsDuplicateStep /\ FirstOfStep.is_rpc /\ ~is_rpc(h_fan.source)
    /\ FirstOfStep.recv_ns = Ts(100, 500) /\ h_fan.recv_ns = Ts(200, 0)
    /\ h_fan.lead = Some(-99)
    /\ LastPushed(smetrics[h_fan.source].lead_time_reservoir) = -99

-----------------------------------------------------------------------------
(* Properties of the race tracker.                                           *)

\* The last processed arrival matched a first arrival of another source.
IsWinStep == h_race.kind = "win"

FirstOfRace == CHOOSE f \in h_race.first : TRUE

PairBefore(pk) ==
    GetOr(h_race.prev_pairs, pk, ShredPairMetrics_new(pk[1], pk[2]))

\* C7: every pair record is stored under a key (key_a, key_b) with
\* key_a <= key_b, so arrivals (A then B) and (B then A) update the same
\* record; a pair record is created or updated only when the two matched
\* arrivals come from distinct sources, and a second arrival from the source
\* of the stored first arrival leaves the arrival map and all pair records
\* unchanged.
C7_CanonicalPairKeys ==
    /\ \A pk \in DOMAIN pairs :
           /\ str_le(pk[1], pk[2]) /\ pk[1] # pk[2]
           /\ <<pk[2], pk[1]>> \notin DOMAIN pairs
           /\ pairs[pk].source_a = pk[1] /\ pairs[pk].source_b = pk[2]
    /\ \A o \in h_race.orders :
           /\ o[1] # o[2]
           /\ \E pk \in DOMAIN pairs : pk \in {o, <<o[2], o[1]>>}
    /\ pairs # h_race.prev_pairs =>
           /\ IsWinStep
           /\ FirstOfRace.source # h_race.source
    /\ (h_race.kind # "none" /\ h_race.kind # "evict" /\ h_race.first # None
            /\ FirstOfRace.source = h_race.source) =>
           /\ arrivals = h_race.prev_arrivals
           /\ pairs = h_race.prev_pairs

\* Sources A and B were matched in both orders and one record counts both.
C7_Witness ==
    /\ {<<SrcA, SrcB>>, <<SrcB, SrcA>>} \subseteq h_race.orders
    /\ DOMAIN pairs = {<<SrcA, SrcB>>}
    /\ pairs[<<SrcA, SrcB>>].lead_count = 2

\* The outcome of a match, as the claim states it: the source with the earlier
\* receive timestamp (the stored first arrival on a tie) gains exactly one win,
\* the lead |first_ts - current_ts| in microseconds is appended, and the map
\* entry is removed.
WinRecorded ==
    IsWinStep =>
        LET f == FirstOfRace
            early == IF TsLe(f.recv_ns, h_race.recv_ns) THEN f.source ELSE h_race.source
            pk == IF str_le(f.source, h_race.source) THEN <<f.source, h_race.source>>
                  ELSE <<h_race.source, f.source>>
            was == PairBefore(pk)
            is == pairs[pk]
        IN  /\ f.source # h_race.source
            /\ h_race.winner = Some(early)
            /\ h_race.pair = Some(pk)
            /\ is.a_wins = was.a_wins + (IF early = pk[1] THEN 1 ELSE 0)
            /\ is.b_wins = was.b_wins + (IF early = pk[2] THEN 1 ELSE 0)
            /\ \E lead \in h_race.lead :
                   /\ lead >= 0 /\ lead < 10000000
                   /\ \/ IsMicrosOf(lead, f.recv_ns, h_race.recv_ns)
                      \/ IsMicrosOf(-lead, f.recv_ns, h_race.recv_ns)
                   /\ is.lead_count = was.lead_count + 1
                   /\ is.lead_sum_us = was.lead_sum_us + lead
                   /\ LastPushed(is.reservoir) = lead
            /\ h_race.key \notin DOMAIN arrivals
            /\ \A other \in (DOMAIN pairs) \ {pk} :
                   other \in DOMAIN h_race.prev_pairs
                       /\ pairs[other] = h_race.prev_pairs[other]

\* A match of distinct sources is dropped only for a gap of 10 s or more.
DiscardOnlyBeyondTenSeconds ==
    h_race.kind = "discarded" => \E lead \in h_race.lead : lead >= 10000000

-----------------------------------------------------------------------------
(* The accumulation buffer of a slot.                                        *)

\* The payloads a data shred of slot s with index i can carry, received or
\* recovered.
PayloadsAt(s, i) ==
    {sh.payload : sh \in {x \in DataShreds \cup {LeaderShred(s, i)} :
                              x.slot = s /\ x.index = i}}

\* The concatenations of one payload for each of the indices a..b-1, ascending.
RECURSIVE Concats(_, _, _)
Concats(s, a, b) ==
    IF a >= b THEN {<<>>}
    ELSE {p \o rest : p \in PayloadsAt(s, a), rest \in Concats(s, a + 1, b)}

\* After flush_contiguous the buffer of an anchored slot holds the payloads of
\* the indices anchor..next_contiguous-1 in ascending order, and
\* next_contiguous is the smallest index >= anchor not yet inserted.
BufferIsContiguousPrefix ==
    \A s \in DOMAIN slots :
        LET st == slots[s]
        IN  st.h_anchor # -1 =>
              /\ st.h_anchor <= st.next_contiguous
              /\ st.entry_buf \in Concats(s, st.h_anchor, st.next_contiguous)
              /\ \A i \in st.h_anchor..(st.next_contiguous - 1) : i \in st.h_ins
              /\ st.next_contiguous \notin st.h_ins

\* A payload inserted at an index below the cursor is not appended and does
\* not move the cursor.
StaleInsertIgnored ==
    \A s \in (DOMAIN slots) \cap (DOMAIN slots') :
        (/\ h_last'.kind = "data" /\ h_last'.slot = s /\ ~h_last'.dropped
         /\ slots[s].h_anchor # -1
         /\ h_last'.index < slots[s].next_contiguous)
            => /\ slots'[s].entry_buf = slots[s].entry_buf
               /\ slots'[s].next_contiguous = slots[s].next_contiguous

\* C14: for any insertion order of data-shred payloads into a slot anchored at
\* index a, after flush_contiguous the buffer is the concatenation, in
\* ascending index order, of the payloads of a..next_contiguous-1,
\* next_contiguous is the smallest index >= a not yet inserted, and a stale
\* payload (index below the cursor) is never appended nor moves the cursor.
C14_BufferIsAscendingConcatenation ==
    []BufferIsContiguousPrefix /\ [][StaleInsertIgnored]_vars

\* C15: flush_contiguous is idempotent: every slot state the decoder holds is
\* the result of a flush, and a second call with no insert in between returns
\* it unchanged (buffer, cursor and pending payloads).
C15_FlushIdempotent ==
    \A s \in DOMAIN slots :
        flush_contiguous(slots[s]) = [st |-> slots[s], panic |-> FALSE]

\* One flush appended two payloads (indices 1 and 2 after index 1 arrived
\* last) and left nothing pending.
C15_Witness ==
    \E s \in DOMAIN slots :
        /\ h_last.kind = "data" /\ h_last.slot = s /\ h_last.index = 1
        /\ slots[s].h_anchor = 0
        /\ 2 \in slots[s].h_ins
        /\ Len(slots[s].entry_buf) = 9
        /\ slots[s].data_payloads = EmptyMap

-----------------------------------------------------------------------------
(* The boundary scan of try_deserialize.                                     *)

\* The offsets of buf at which a complete valid entry starts.
ValidOffsets(buf) == {off \in 0..(Len(buf) - 2) : DecodeOk(buf, off)}

FirstValidOffset(buf) ==
    CHOOSE off \in ValidOffsets(buf) : \A o \in ValidOffsets(buf) : off <= o

\* A slot anchored at index 0 is never scanned.  A slot anchored above 0 has
\* emitted and consumed nothing while its scan has not succeeded, and then no
\* complete valid entry lies in its buffer; once the scan has succeeded the
\* first valid entry of the buffer has been consumed, not skipped.
BoundaryScanState ==
    \A s \in DOMAIN slots :
        LET st == slots[s]
        IN  /\ st.h_anchor = 0 => st.boundary_scanned
            /\ (st.h_anchor > 0 /\ ~st.boundary_scanned) =>
                  /\ st.txs_decoded = 0
                  /\ st.consumed = 0
                  /\ ValidOffsets(st.entry_buf) = {}
            /\ (st.h_anchor > 0 /\ st.boundary_scanned) =>
                  /\ ValidOffsets(st.entry_buf) # {}
                  /\ st.consumed >=
                        DecodeEnd(st.entry_buf, FirstValidOffset(st.entry_buf))
                  /\ st.txs_decoded >= 1

\* A scan that has succeeded is not repeated.
ScanNeverRepeated ==
    \A s \in (DOMAIN slots) \cap (DOMAIN slots') :
        slots[s].boundary_scanned => slots'[s].boundary_scanned

\* C16: for a slot anchored at an index > 0 try_deserialize emits nothing
\* until the boundary scan succeeds; the scan succeeds on the first call at
\* which a complete valid entry lies in the buffer, leaves consumed at the
\* first offset where a trial decode succeeds (so the first valid entry is not
\* skipped), and is never repeated; a slot anchored at index 0 is not scanned.
C16_BoundaryScanOnce ==
    []BoundaryScanState /\ [][ScanNeverRepeated]_vars

-----------------------------------------------------------------------------
(* One-shot reconstruction.                                                  *)

FecLive(k) == k[1] \in DOMAIN fec_sets /\ k[2] \in DOMAIN fec_sets[k[1]]

\* C20: for each FEC set (slot, fec_set_index) reconstruction runs at most
\* once over the set's lifetime: the first run marks the set recovered and no
\* later shred for the set triggers another run, whatever the first run
\* returned.
C20_ReconstructAtMostOnce ==
    \A k \in FecKeys :
        /\ h_runs[k] <= 1
        /\ FecLive(k) => (fec_sets[k[1]][k[2]].recovered <=> h_runs[k] = 1)

\* The single run of FEC set k ended in the Reed-Solomon library's error: data
\* shards were missing and fewer than num_data of the set's shard positions
\* were filled (the shards map also counts positions beyond the set).
RsFailed(k) ==
    LET fec == fec_sets[k[1]][k[2]]
    IN  /\ h_runs[k] = 1
        /\ \E i \in 0..(fec.num_data - 1) : i \notin DOMAIN fec.shards
        /\ Cardinality({i \in 0..(fec.num_data + fec.num_coding - 1) :
                            i \in DOMAIN fec.shards}) < fec.num_data

\* A coding shred arrived for a set whose only run had failed in the
\* Reed-Solomon library, and did not trigger another run.
C20_Witness ==
    \E k \in FecKeys :
        /\ FecLive(k) /\ fec_sets[k[1]][k[2]].recovered
        /\ RsFailed(k)
        /\ h_last.kind = "code" /\ h_last.slot = k[1] /\ ~h_last.dropped
        /\ ~h_last.ran_rs

-----------------------------------------------------------------------------
(* Forwarding to the output channel.                                         *)

\* How many transactions with signature k the output channel has received
\* (nothing takes from out_chan in this model).
Forwarded(k) == Cardinality({i \in 1..Len(out_chan) : out_chan[i].key = k})

\* The output channel changes only by receiving one transaction, and only in a
\* relay step that finds the signature absent from the dedup map and inserts
\* it; a step that finds the signature present forwards nothing.
ForwardsOnlyOnInsert ==
    out_chan' # out_chan =>
        /\ h_fan'.kind = "first"
        /\ h_fan'.key \notin DOMAIN dedup
        /\ h_fan'.key \in DOMAIN dedup'
        /\ Len(out_chan') = Len(out_chan) + 1
        /\ SubSeq(out_chan', 1, Len(out_chan)) = out_chan
        /\ out_chan'[Len(out_chan')].key = h_fan'.key

\* C13: only the arrival that inserts a signature into the vacant dedup slot
\* forwards its transaction; an arrival that finds the signature present
\* forwards nothing; the output channel receives each signature at most once.
C13_ForwardedAtMostOnce ==
    /\ [][ForwardsOnlyOnInsert]_vars
    /\ [](\A k \in Keys : Forwarded(k) <= 1)

\* C13 as amended: the output channel receives a signature at most once for
\* each time the signature is inserted into the dedup map, that is once per
\* residency between two evictions.
C13_ForwardedOncePerResidency ==
    /\ [][ForwardsOnlyOnInsert]_vars
    /\ [](\A k \in Keys : Forwarded(k) <=
             Cardinality({i \in 1..Len(h_credits[k]) : h_credits[k][i].credit = "first"}))
    /\ [](\A k \in Keys : FirstThenDuplicates(h_res[k]))

\* A signature was forwarded, evicted, forwarded again, and then seen again by
\* an arrival that found it present.
C13_Witness ==
    \E k \in Keys :
        /\ Forwarded(k) = 2
        /\ h_fan.kind = "dup" /\ h_fan.key = k

-----------------------------------------------------------------------------
(* Slots without a last-in-slot shred.                                       *)

\* No slot is counted complete unless a data shred carrying the last-in-slot
\* flag was received or recovered for it.
CompleteOnlyWithLastFlag ==
    \A s \in Slots :
        (\E i \in 1..Len(h_outcomes[s]) : h_outcomes[s][i] = "complete")
            => s \in h_lastflag

\* Slot s has left the open state through the expiry sweep, counted partial
\* or dropped.
ExpiredUncomplete(s) ==
    /\ s \in h_evicted
    /\ h_outcomes[s] \in {<<"partial">>, <<"dropped">>}

\* C11: a slot for which no shred carrying the last-in-slot flag is ever
\* received is never counted complete, and, once open, it eventually leaves
\* the open state via expiration, counted partial or dropped (unless a
\* last-in-slot shred does arrive for it).
C11_NoLastFlagExpires ==
    /\ []CompleteOnlyWithLastFlag
    /\ (0 \in DOMAIN slots /\ 0 \notin h_lastflag)
            ~> (0 \in h_lastflag \/ ExpiredUncomplete(0))

-----------------------------------------------------------------------------
(* Properties of the receiver.                                               *)

\* The receive loop can always take its next datagram, whatever the state of
\* the parser channel.
ReceiverNeverBlocks ==
    ndatagrams < MaxDatagrams => \A dg \in Datagrams : ENABLED ReceiveDatagram(dg)

\* What the step did to the receiver's counters and channel.
ReceiverStep(received, enqueued, dropped) ==
    /\ shreds_received' = shreds_received + received
    /\ h_enqueued' = h_enqueued + enqueued
    /\ shreds_dropped' = shreds_dropped + dropped

-----------------------------------------------------------------------------
(* Properties of the percentiles.                                            *)

\* x is the element at index k (from 0) of the ascending sort of samples.
IsAtSortedIndex(x, samples, k) ==
    /\ \E i \in 1..Len(samples) : samples[i] = x
    /\ Cardinality({i \in 1..Len(samples) : samples[i] < x}) <= k
    /\ Cardinality({i \in 1..Len(samples) : samples[i] <= x}) > k

\* The index the claim gives for percentile p of n samples.
PercentileIndex(n, p) == Min((n * p) \div 100, n - 1)

\* The snapshot snap is what the claim says for the held samples.
SnapshotOf(snap, samples) ==
    LET n == Len(samples)
    IN  IF n = 0
        THEN /\ snap.lead_time_p50_us = None
             /\ snap.lead_time_p95_us = None
             /\ snap.lead_time_p99_us = None
        ELSE /\ \E x \in snap.lead_time_p50_us :
                    IsAtSortedIndex(x, samples, PercentileIndex(n, 50))
             /\ \E x \in snap.lead_time_p95_us :
                    IsAtSortedIndex(x, samples, PercentileIndex(n, 95))
             /\ \E x \in snap.lead_time_p99_us :
                    IsAtSortedIndex(x, samples, PercentileIndex(n, 99))

\* A reservoir of a build with room for them holding the samples 1..=100.
OneToHundred == [buf |-> [i \in 1..100 |-> i], len |-> 100, pos |-> 100]

\* C17: for a reservoir holding n >= 1 accepted samples the snapshot returns,
\* for p in {50, 95, 99}, the element at index min(floor(n*p/100), n-1) of the
\* ascending-sorted samples (1..=100 give 51, 96, 100), and absent for all
\* three when the reservoir is empty.
C17_PercentileIndex ==
    /\ SnapshotOf(h_snap.snap, h_snap.samples)
    /\ percentiles(OneToHundred) = Some(<<51, 96, 100>>)
    /\ percentiles(LeadTimeReservoir_new) = None

\* A snapshot was taken of a full reservoir holding its larger sample first.
C17_Witness ==
    /\ h_snap.taken
    /\ Len(h_snap.samples) = RESERVOIR_CAP
    /\ h_snap.samples[1] > h_snap.samples[2]
    /\ h_snap.snap.lead_time_p50_us # None

-----------------------------------------------------------------------------
(* Properties of the reservoir.                                              *)

\* n pushes of the same sample v, ten at a time.
RECURSIVE PushFew(_, _, _)
PushFew(r, v, n) ==
    IF n = 0 THEN r
    ELSE CHOOSE after \in {PushFew(next, v, n - 1) :
                               next \in {LeadTimeReservoir_push(r, v)}} : TRUE

RECURSIVE PushSame(_, _, _)
PushSame(r, v, n) ==
    IF n <= 10 THEN PushFew(r, v, n)
    ELSE CHOOSE after \in {PushSame(next, v, n - 10) :
                               next \in {PushFew(r, v, 10)}} : TRUE

\* Reservoir r holds exactly the most recent min(k, RESERVOIR_CAP) of the k
\* samples of h (oldest first): the j-th most recent one sits j places behind
\* the write position, so the next push overwrites the oldest.
HoldsMostRecent(r, h) ==
    LET k == Len(h)
        n == Min(k, RESERVOIR_CAP)
    IN  /\ r.len = n
        /\ r.pos = k % RESERVOIR_CAP
        /\ \A j \in 1..n : r.buf[((k - j) % RESERVOIR_CAP) + 1] = h[k - j + 1]

\* C18: after k accepted samples the reservoir's active contents are exactly
\* the most recent min(k, RESERVOIR_CAP) samples, the length never exceeds the
\* capacity and the oldest sample is overwritten first; RESERVOIR_CAP + 100
\* identical samples yield p50 = p99 = that sample.
C18_ReservoirHoldsMostRecent ==
    /\ \E ps \in percentiles(PushSame(LeadTimeReservoir_new, 500000, RESERVOIR_CAP + 100)) :
          ps[1] = 500000 /\ ps[3] = 500000
    /\ [](\A s \in FanSources :
            LET r == smetrics[s].lead_time_reservoir
            IN  /\ r.len <= RESERVOIR_CAP
                /\ Len(Held(r)) = r.len
                /\ HoldsMostRecent(r, h_samples[s])
                /\ smetrics[s].lead_time_count = Len(h_samples[s]))

\* A source's reservoir has wrapped: more samples accepted than it holds, the
\* oldest of them different from the one that replaced it.
C18_Witness ==
    \E s \in FanSources :
        /\ Len(h_samples[s]) = RESERVOIR_CAP + 1
        /\ h_samples[s][1] # h_samples[s][RESERVOIR_CAP + 1]
        /\ smetrics[s].lead_time_reservoir.buf[1] = h_samples[s][RESERVOIR_CAP + 1]

-----------------------------------------------------------------------------
(* Properties of parse_data_payload.                                         *)

\* What the claim says parse_data_payload returns for datagram w.
ClaimedParse(w) ==
    IF /\ Len(w) >= 88
       /\ (w[65] = 165 \/ (w[65] \div 16) \in 8..11)
       /\ 88 <= w[87] + 256 * w[88]
       /\ w[87] + 256 * w[88] <= Len(w)
    THEN Some([last_in_slot |-> w[86] % 2 = 1,
               payload |-> [i \in 1..(w[87] + 256 * w[88] - 88) |-> w[88 + i]]])
    ELSE None

\* C19: parse_data_payload round-trips and validates: a datagram of length
\* >= 88 with a data variant byte (0xa5 or high nibble 0x8..0xb) and a declared
\* payload end e with 88 <= e <= length parses to (flag, bytes[88..e]), equal
\* to the (f, p) the shred was built from; any other input parses to nothing.
C19_ParseRoundTrip ==
    h_parsed.done =>
        /\ h_parsed.result = ClaimedParse(wire_bytes)
        /\ (h_built.made /\ ~h_built.altered) =>
              h_parsed.result =
                 IF h_built.variant = 165 \/ (h_built.variant \div 16) \in 8..11
                 THEN Some([last_in_slot |-> h_built.last_in_slot,
                            payload |-> h_built.data])
                 ELSE None

\* A shred built with the last-in-slot flag and a payload of three bytes,
\* cut to end where its payload ends, parsed to that flag and payload.
C19_Witness ==
    /\ h_parsed.done
    /\ h_built.made /\ h_built.altered
    /\ Len(wire_bytes) = 91
    /\ wire_bytes[87] = 91
    /\ h_parsed.result = Some([last_in_slot |-> TRUE, payload |-> <<104, 105, 33>>])

-----------------------------------------------------------------------------
(* The outcome of a slot.                                                    *)

Open(s) == s \in DOMAIN slots => ~slots[s].counted

CountedAs(s, o) == h_outcomes'[s] = Append(h_outcomes[s], o)

\* The decoder handled a shred of slot s in this step, s was open, and the step
\* left last-in-slot latched with the contiguous cursor past the max index.
CompletesNow(s) ==
    /\ h_last'.slot = s /\ h_last'.kind \in {"data", "code"} /\ ~h_last'.dropped
    /\ Open(s)
    /\ s \in DOMAIN slots'
    /\ slots'[s].last_seen
    /\ slots'[s].next_contiguous > slots'[s].max_index

\* The expiry sweep of this step removed the uncounted state of slot s.
ExpiresNow(s) ==
    /\ s \in DOMAIN slots /\ ~slots[s].counted
    /\ s \in h_evicted' /\ s \notin h_evicted
    /\ highest_slot' > highest_slot

OutcomeStep ==
    \A s \in Slots :
        /\ CountedAs(s, "complete") <=> CompletesNow(s)
        /\ CountedAs(s, "partial") <=> (ExpiresNow(s) /\ h_sent[s] > 0)
        /\ CountedAs(s, "dropped") <=> (ExpiresNow(s) /\ h_sent[s] = 0)
        /\ \/ h_outcomes'[s] = h_outcomes[s]
           \/ \E o \in {"complete", "partial", "dropped"} : CountedAs(s, o)
        /\ (CountedAs(s, "complete") /\ s \in DOMAIN slots) => slots'[s].counted

\* C21: the outcome counted for a slot follows the slot's state machine.  It
\* is counted complete exactly in a step that handles a shred of the open slot
\* and leaves last-in-slot latched and the contiguous cursor past the max index;
\* it is counted partial or dropped exactly in a step whose expiry sweep removes
\* the slot while uncounted, partial iff the slot has emitted a transaction.
C21_OutcomeFollowsFsm ==
    [][OutcomeStep]_vars

\* Slot 0 was counted partial: it had emitted, never completed, and expired.
C21_Witness ==
    /\ h_outcomes[0] = <<"partial">> /\ h_sent[0] > 0 /\ 0 \in h_evicted
    /\ \E s \in Slots : h_outcomes[s] = <<"complete">>

-----------------------------------------------------------------------------
(* Expiry by slot distance.                                                  *)

HeldSlots == (DOMAIN slots) \cup (DOMAIN fec_sets)

\* Slot s is older than the highest slot by more than the expiry distance.
TooOld(s, highest) == s + SLOT_EXPIRY_DISTANCE < highest

\* No slot state and no FEC-set state is held for a slot that is too old.
NothingTooOldHeld == \A s \in HeldSlots : ~TooOld(s, highest_slot)

\* A step that advances the highest slot leaves no state of a too-old slot.
AdvanceEvicts ==
    highest_slot' > highest_slot =>
        \A s \in HeldSlots :
            TooOld(s, highest_slot') =>
                s \notin DOMAIN slots' /\ s \notin DOMAIN fec_sets'

-----------------------------------------------------------------------------
(* Shreds of expired slots.                                                  *)

\* The shred handled by this step was more than SLOT_EXPIRY_DISTANCE below the
\* highest slot observed before it.
LateShredStep ==
    /\ nshreds' = nshreds + 1
    /\ h_last'.kind \in {"data", "code"}
    /\ TooOld(h_last'.slot, highest_slot)

LateShredIgnored ==
    LateShredStep =>
        /\ h_last'.dropped
        /\ UNCHANGED <<slots, fec_sets, highest_slot, dmetrics, decoded_chan>>

\* A slot whose state was evicted by the sweep stays evicted: it was created
\* once and counted once.
EvictedStaysEvicted ==
    \A s \in h_evicted :
        s \notin DOMAIN slots /\ h_created[s] = 1 /\ Len(h_outcomes[s]) = 1

\* C23: a shred whose slot is more than SLOT_EXPIRY_DISTANCE below the highest
\* observed slot is dropped with no effect on the slot states, the FEC sets and
\* the counters, so a slot that was evicted is never re-created or counted again.
C23_LateShredDropped ==
    [][LateShredIgnored]_vars /\ []EvictedStaysEvicted

\* The frame half of C23 alone, and a late shred that was dropped.
LateShredFrame == [][LateShredIgnored]_vars

LateShredSeen ==
    h_last.kind = "data" /\ h_last.dropped /\ TooOld(h_last.slot, highest_slot)

-----------------------------------------------------------------------------
(* The number of slot states in flight.                                      *)

\* Every slot state held is at most SLOT_EXPIRY_DISTANCE behind the highest slot.
HeldWithinDistance ==
    \A s \in DOMAIN slots : s <= highest_slot /\ ~TooOld(s, highest_slot)

\* C24: the number of slot states held by the decoder never exceeds
\* MAX_ACTIVE_SLOTS, whatever slot numbers the shreds carry; the states held
\* are those of slots within the expiry distance of the highest slot.
C24_ActiveSlotsWithinCap ==
    /\ Cardinality(DOMAIN slots) <= MAX_ACTIVE_SLOTS
    /\ Cardinality(DOMAIN fec_sets) <= MAX_ACTIVE_SLOTS
    /\ HeldWithinDistance

\* The decoder holds the state of every slot the distance admits, one more
\* than SLOT_EXPIRY_DISTANCE, after the sweep has evicted an older one.
C24_Witness ==
    /\ Cardinality(DOMAIN slots) = SLOT_EXPIRY_DISTANCE + 1
    /\ h_evicted # {}
    /\ decoder_pc = "running"

-----------------------------------------------------------------------------
(* Duplicate data shreds.                                                    *)

\* The step handled a wire data shred of slot s at an index whose payload had
\* been stored in the slot state before.
DuplicateDataStep(s) ==
    /\ nshreds' = nshreds + 1
    /\ h_last'.kind = "data" /\ h_last'.slot = s /\ ~h_last'.dropped
    /\ s \in DOMAIN slots
    /\ h_last'.index \in slots[s].h_ins

DuplicateDropped ==
    \A s \in (DOMAIN slots) \cap (DOMAIN slots') :
        DuplicateDataStep(s) =>
            /\ slots'[s].data_payloads = slots[s].data_payloads
            /\ slots'[s].entry_buf = slots[s].entry_buf

\* C25: a data shred for a (slot, index) whose payload was already stored for
\* the slot is dropped: the stored payload is not replaced, nothing is appended
\* to the accumulation buffer, and the pending-payload map is unchanged.
C25_DuplicateDataShredDropped ==
    [][DuplicateDropped]_vars

\* The buffer half alone: a duplicate at an index below the cursor appends
\* nothing.
DuplicateAppendsNothing ==
    [][\A s \in (DOMAIN slots) \cap (DOMAIN slots') :
          (DuplicateDataStep(s) /\ h_last'.index < slots[s].next_contiguous
             /\ slots[s].next_contiguous # U32_MAX)
             => slots'[s].entry_buf = slots[s].entry_buf]_vars

-----------------------------------------------------------------------------
(* Restartable entry decoding.                                               *)

\* The longest prefix of whole entries of buf[off..]: where it ends, and the
\* transactions of its entries in entry order.
RECURSIVE WholeEntries(_, _)
WholeEntries(buf, off) ==
    IF DecodeOk(buf, off)
    THEN LET rest == WholeEntries(buf, DecodeEnd(buf, off))
         IN  [pos |-> rest.pos, txs |-> DecodeTxs(buf, off) \o rest.txs]
    ELSE [pos |-> off, txs |-> <<>>]

\* Decoding the buffer in one pass from its start.
OnePass(buf) == WholeEntries(buf, 0)

RestartableState ==
    LET one == OnePass(ent_state.entry_buf)
    IN  /\ h_ent_txs = one.txs
        /\ ent_state.consumed = one.pos
        /\ ent_state.consumed <= Len(ent_state.entry_buf)
        /\ ~DecodeOk(ent_state.entry_buf, ent_state.consumed)

ConsumedNeverDecreases == ent_state'.consumed >= ent_state.consumed

\* C26: however the byte stream of a slot is split into arrivals, the
\* transactions returned by the successive try_deserialize calls, concatenated,
\* are those of one pass over the longest prefix of whole entries, in entry
\* order and each once; a truncated trailing entry consumes nothing; consumed
\* never decreases and never exceeds the buffer length.
C26_RestartableDeserialize ==
    []RestartableState /\ [][ConsumedNeverDecreases]_vars

\* An entry of two transactions followed an entry without transactions; at
\* most two tokens arrive at a time, so the second entry came in several pieces
\* and was returned whole by the call after its last piece.
C26_Witness ==
    /\ ent_state.entry_buf = <<0, 0, 0, 2, -2, -1>>
    /\ h_ent_txs = <<-2, -1>>
    /\ ent_state.consumed = 6

-----------------------------------------------------------------------------
(* Transactions dropped at a full channel.                                   *)

\* Transactions the decoder handed to self.tx.try_send that the full channel
\* rejected (every decoded transaction is handed over, and nothing takes from
\* decoded_chan in these runs).
TxsDroppedAtDecoder == dmetrics.txs_decoded - Len(decoded_chan)

DecoderCounters == DOMAIN DecoderMetrics_new

\* C27: every transaction dropped at the full decode-to-fan-in channel is
\* recorded in a drop counter: some counter of the source's metrics holds the
\* number of transactions dropped so far.
C27_TxDropsCounted ==
    \E c \in DecoderCounters : dmetrics[c] = TxsDroppedAtDecoder

-----------------------------------------------------------------------------
(* Two baseline arrivals.                                                    *)

\* The last relay step found the signature present, and both the stored first
\* arrival and the source of the step are baseline sources.
BaselinePairStep ==
    /\ h_fan.kind = "dup"
    /\ is_rpc(h_fan.source)
    /\ \E first \in h_fan.first : first.is_rpc

\* C28: when the first and a later arrival of a signature both come from
\* baseline sources, the later arrival is counted in txs_duplicate of its
\* source and no lead-time sample is recorded on any source.
C28_BaselinePairSkipped ==
    BaselinePairStep =>
        /\ smetrics[h_fan.source].txs_duplicate
              = h_prev[h_fan.source].txs_duplicate + 1
        /\ h_fan.lead = None /\ h_fan.target = None
        /\ \A s \in FanSources : SameLead(h_prev[s], smetrics[s])
        /\ \A s \in FanSources : smetrics[s].txs_first = h_prev[s].txs_first

\* The rpc source stored the first arrival and the geyser source delivered the
\* same signature 49.5 us later: geyser was credited a duplicate.
C28_Witness ==
    /\ BaselinePairStep
    /\ h_fan.source = "geyser"
    /\ \E first \in h_fan.first : first.metrics = "rpc" /\ first.recv_ns = Ts(100, 500)
    /\ smetrics["geyser"].txs_duplicate = 1

-----------------------------------------------------------------------------
(* The program/account allowlist.                                            *)

\* An allowlist is configured, the source is shred-tier and no static account
\* key of the transaction is in the allowlist.
OutsideAllowlist(s, tx) == filter_nonempty /\ ~is_rpc(s) /\ ~tx.matches

\* What a relay step for <<s, tx>> does with respect to the allowlist.
AllowlistStep(s, tx) ==
    (nfan' = nfan + 1 /\ h_fan'.source = s /\ Relay(s, tx)) =>
        IF OutsideAllowlist(s, tx)
            THEN /\ h_fan'.kind = "filtered"
                 /\ UNCHANGED <<dedup, smetrics, out_chan, h_credits>>
            ELSE /\ h_fan'.kind # "filtered"
                 /\ tx.key # NoSig =>
                        /\ tx.key \in DOMAIN dedup'
                        /\ smetrics'[s].txs_first + smetrics'[s].txs_duplicate
                              = smetrics[s].txs_first + smetrics[s].txs_duplicate + 1

\* C29: with a non-empty allowlist a transaction of a shred-tier source whose
\* static account keys do not intersect the allowlist is dropped before dedup
\* (no dedup-map insert, no txs_first or txs_duplicate increment, nothing
\* forwarded); transactions of baseline sources, and every transaction when no
\* allowlist is configured, are never filtered.
C29_AllowlistDropsBeforeDedup ==
    [][\A in \in FanInputs : AllowlistStep(in[1], in[2])]_vars

\* With an allowlist configured, a non-matching transaction of the geyser
\* baseline was stored as first arrival of signature 1, and the same
\* signature from shred source a, non-matching too, was then dropped: the
\* dedup map still holds the baseline arrival alone and a was credited nothing.
C29_Witness ==
    /\ filter_nonempty
    /\ h_fan.kind = "filtered" /\ h_fan.source = "a"
    /\ 1 \in DOMAIN dedup /\ dedup[1].metrics = "geyser"
    /\ smetrics["geyser"].txs_first = 1
    /\ smetrics["a"].txs_first = 0 /\ smetrics["a"].txs_duplicate = 0
    /\ Len(out_chan) = 1

-----------------------------------------------------------------------------
(* The shape of a FEC set.                                                   *)

\* FEC set (slot, fsi) is held.
FecHeld(f, slot, fsi) == slot \in DOMAIN f /\ fsi \in DOMAIN f[slot]

\* A FEC set held before and after a step has the same shape.
ShapeKept ==
    \A slot \in Slots : \A fsi \in {0} :
        (FecHeld(fec_sets, slot, fsi) /\ FecHeld(fec_sets', slot, fsi)) =>
            /\ fec_sets'[slot][fsi].num_data = fec_sets[slot][fsi].num_data
            /\ fec_sets'[slot][fsi].num_coding = fec_sets[slot][fsi].num_coding

\* Coding shred sh, with a position its own header admits, declares another
\* shape than the held FEC set of its key.
Disagrees(sh) ==
    /\ sh.kind = "code" /\ sh.nd > 0 /\ sh.nc > 0
    /\ FecHeld(fec_sets, sh.slot, sh.fsi)
    /\ \/ fec_sets[sh.slot][sh.fsi].num_data # sh.nd
       \/ fec_sets[sh.slot][sh.fsi].num_coding # sh.nc

\* The decoder takes a disagreeing coding shred: nothing but the shred is gone.
DisagreeingDropped ==
    \A sh \in ShapeShreds : \A ok \in RecoveredOk :
        (nshreds' = nshreds + 1 /\ Disagrees(sh) /\ DecodeShred(sh, ok)) =>
            /\ UNCHANGED <<slots, fec_sets, highest_slot, dmetrics, decoded_chan,
                           h_runs, h_recv>>
            /\ ~h_last'.ran_rs

\* C30: once a FEC set exists for (slot, fec_set_index) its num_data and
\* num_coding never change, and a later coding shred for that key declaring a
\* different (num_data, num_coding) is dropped without adding a shard,
\* triggering recovery, or changing any counter.
C30_FecShapeFixed == [][ShapeKept /\ DisagreeingDropped]_vars

\* FEC set (0, 0) was created with shape (2, 1) by a coding shred, holds that
\* one shard, and the last shred taken was a coding shred for the key that
\* declares shape (1, 2): the set is still (2, 1) with one shard, no recovery
\* ran and coverage_shreds_expected is the 2 counted at creation.
C30_Witness ==
    /\ FecHeld(fec_sets, 0, 0)
    /\ fec_sets[0][0].num_data = 2 /\ fec_sets[0][0].num_coding = 1
    /\ DOMAIN fec_sets[0][0].shards = {2}
    /\ h_last.kind = "code" /\ ~h_last.dropped /\ ~h_last.ran_rs
    /\ h_last.nd = 1 /\ h_last.nc = 2
    /\ nshreds = 2
    /\ dmetrics.coverage_shreds_expected = 2

-----------------------------------------------------------------------------
(* Eviction artifacts in the race tracker.                                   *)

\* The receive timestamps a and b are 10 s or more apart, in nanoseconds.
TenSecondsApart(a, b) ==
    LET lo == IF TsLe(a, b) THEN a ELSE b
        hi == IF TsLe(a, b) THEN b ELSE a
    IN  \/ hi.us - lo.us > 10000000
        \/ hi.us - lo.us = 10000000 /\ hi.ns >= lo.ns

\* The last processed arrival found a first arrival of another source.
SecondDistinctArrival ==
    /\ h_race.kind \in {"win", "discarded", "same", "first"}
    /\ h_race.first # None
    /\ FirstOfRace.source # h_race.source

\* Every sample held in the reservoir of a pair record, and its sum.
PairSamplesInRange ==
    \A pk \in DOMAIN pairs :
        /\ \A i \in 1..pairs[pk].reservoir.len :
               pairs[pk].reservoir.buf[i] \in 0..9999999
        /\ pairs[pk].lead_sum_us >= 0
        /\ pairs[pk].lead_sum_us <= 9999999 * pairs[pk].lead_count

-----------------------------------------------------------------------------
(* Retention of the dedup map.                                               *)

\* An arrival received at recv_ns is, at time now, younger than the retention
\* bound of 15 minutes (900 000 000 us), compared in nanoseconds.
YoungerThanRetention(recv_ns, now) ==
    \/ now.us - recv_ns.us < 900000000
    \/ now.us - recv_ns.us = 900000000 /\ now.ns < recv_ns.ns

\* A pass of the eviction thread keeps exactly the younger entries, unchanged.
EvictionPassExact ==
    h_fan'.kind = "evict" =>
        /\ DOMAIN dedup' =
              {k \in DOMAIN dedup : YoungerThanRetention(dedup[k].recv_ns, fan_now)}
        /\ \A k \in DOMAIN dedup' : dedup'[k] = dedup[k]

\* Nothing but a pass of the eviction thread removes or replaces an entry.
OnlyEvictionRemoves ==
    h_fan'.kind # "evict" =>
        \A k \in DOMAIN dedup : k \in DOMAIN dedup' /\ dedup'[k] = dedup[k]

\* A relay step for a signature whose latest first arrival is younger than the
\* retention bound finds that arrival in the map and counts a duplicate.
DuplicateInWindowMatched ==
    \A k \in Keys : \A r \in h_firsts[k] :
        (/\ nfan' = nfan + 1
         /\ h_fan'.kind \in {"first", "dup"} /\ h_fan'.key = k
         /\ YoungerThanRetention(r, fan_now)) =>
            /\ h_fan'.kind = "dup"
            /\ \E first \in h_fan'.first : first.recv_ns = r
            /\ h_firsts'[k] = h_firsts[k]

-----------------------------------------------------------------------------
(* The polling baseline source.                                              *)

\* The slots a..b in ascending order.
SlotRange(a, b) == [i \in 1..(b - a + 1) |-> a + i - 1]

\* A step of the polling loop that called poll_new_slots.
PollStep == npolls' = npolls + 1

\* What a poll does, by what get_slot returned.
PollOutcome ==
    PollStep =>
        IF h_poll'.tip = None
            THEN /\ last_slot' = last_slot
                 /\ h_attempted' = h_attempted
                 /\ rpc_pc' = "backoff"
        ELSE LET T == CHOOSE t \in h_poll'.tip : TRUE
             IN  IF T > last_slot
                     THEN /\ h_attempted' = h_attempted \o SlotRange(last_slot + 1, T)
                          /\ last_slot' = T
                          /\ rpc_pc' = "sleep"
                     ELSE /\ last_slot' = last_slot
                          /\ h_attempted' = h_attempted
                          /\ rpc_pc' = "sleep"

\* No slot is attempted twice, whether or not its fetch failed, and
\* slots_attempted counts the attempts.
AttemptedOnce ==
    /\ \A i \in 1..Len(h_attempted) : \A j \in 1..Len(h_attempted) :
           i < j => h_attempted[i] < h_attempted[j]
    /\ \A i \in 1..Len(h_attempted) : h_attempted[i] <= last_slot
    /\ rpc_metrics.slots_attempted = Len(h_attempted)

\* C33: in the polling baseline source last_slot never decreases; a poll that
\* observes tip T > last_slot attempts every slot in last_slot+1..=T exactly
\* once, in ascending order, then sets last_slot = T even when block fetches
\* fail (a failed slot is never retried); when the tip query itself fails,
\* last_slot is unchanged and the loop backs off and polls again.
C33_PollerAdvancesPastFailures ==
    /\ [][last_slot' >= last_slot /\ PollOutcome]_vars
    /\ []AttemptedOnce
    /\ (rpc_pc = "backoff") ~> (rpc_pc = "poll")

\* A poll saw tip 4 from last_slot 1; the fetch of slot 3 failed: slots 2, 3
\* and 4 were attempted in this order, two completed, and last_slot is 4.
C33_Witness ==
    /\ h_poll.polled /\ h_poll.tip = Some(4) /\ h_poll.before = 1
    /\ h_poll.failed = {3}
    /\ h_attempted = <<2, 3, 4>>
    /\ last_slot = 4
    /\ rpc_metrics.slots_attempted = 3 /\ rpc_metrics.slots_complete = 2

-----------------------------------------------------------------------------
(* The reconnect loop of the streaming source.                               *)

\* Every return of run_geyser, whatever the reason, leads to the 5 s wait,
\* and the wait to the next connection attempt; the loop has no exit.
ReconnectStep ==
    /\ nends' = nends + 1 => conn_pc' = "wait" /\ h_run' \in RunResults
    /\ conn_pc = "wait" => conn_pc' = "connect"
    /\ conn_pc' = "wait" => nends' = nends + 1
    /\ h_attempts' >= h_attempts

\* C34: the streaming source reconnects indefinitely: whenever its connection
\* attempt or stream ends for any reason (connect error, stream error, clean
\* end of stream) it waits 5 s and attempts to connect again; the loop never
\* exits, so every disconnect is eventually followed by a new connection
\* attempt.
C34_ReconnectsIndefinitely ==
    /\ [][ReconnectStep]_vars
    /\ [](conn_pc \in {"connect", "streaming", "wait"})
    /\ \A n \in 0..(2 * MaxEnds + 2) :
           (conn_pc = "wait" /\ h_attempts = n) ~> (h_attempts = n + 1)

\* The stream ended cleanly after a failed attempt and an attempt that
\* opened the stream, and a third attempt has been made since.
C34_Witness ==
    /\ h_run = "eof"
    /\ nends = 2
    /\ h_attempts = 3
    /\ geyser_metrics.txs_emitted = 1

-----------------------------------------------------------------------------
(* Shutdown.                                                                  *)

\* Every sender of the source's raw-shred channel is dropped.
InputClosed == recv_pc = "done"

\* The decoder and the relay thread have ended with nothing left buffered.
Drained ==
    /\ decode_pc # "running" /\ relay_pc = "done"
    /\ inner_chan = 0
    /\ decode_pc = "done" => raw_chan = 0

\* Every thread whose handle FanInSource::start returns has finished.
AllHandlesFinished ==
    /\ recv_pc = "done" /\ decode_pc # "running" /\ relay_pc = "done"
    /\ evict_pc = "done"

\* Once the input is closed the decoder and the relay thread drain and end.
ClosedInputDrains == InputClosed ~> Drained

\* C35: once all input channels are closed the decoder and the source's relay
\* thread process every item still buffered and then terminate, so the fan-in
\* drains and every thread handle returned by FanInSource::start eventually
\* finishes.
C35_ShutdownFinishesAllHandles ==
    InputClosed ~> (Drained /\ AllHandlesFinished)

-----------------------------------------------------------------------------
(* The slot counters add up.                                                 *)

\* The slot states held that have not been counted complete.
LiveUncounted == {s \in DOMAIN slots : ~slots[s].counted}

\* The number of slot states created so far.
RECURSIVE SumOf(_, _)
SumOf(f, S) ==
    IF S = {} THEN 0
    ELSE LET x == CHOOSE y \in S : TRUE IN f[x] + SumOf(f, S \ {x})

\* C36: after every processed shred slots_attempted = slots_complete +
\* slots_partial + slots_dropped + (number of live slot states not yet
\* counted): slots_attempted is incremented exactly once per slot state
\* created, and no slot state is discarded without having been counted.
C36_AttemptedAddsUp ==
    /\ dmetrics.slots_attempted = OutcomeTotal + Cardinality(LiveUncounted)
    /\ dmetrics.slots_attempted = SumOf(h_created, Slots)

\* The same while the decoder thread runs.
AttemptedAddsUpWhileRunning == decoder_pc = "running" => C36_AttemptedAddsUp

-----------------------------------------------------------------------------
(* Crediting and forwarding are independent.                                 *)

\* The sum of txs_first over all sources.
TotalFirst == SumOf([s \in FanSources |-> smetrics[s].txs_first], FanSources)

\* A relay step that found the signature absent credits its source with a
\* first arrival and inserts the entry, whether or not the output channel had
\* room; with a full channel the transaction is not forwarded.
VacantStep ==
    (nfan' = nfan + 1 /\ h_fan'.kind = "first") =>
        LET s == h_fan'.source
            k == h_fan'.key
        IN  /\ smetrics'[s].txs_first = smetrics[s].txs_first + 1
            /\ k \notin DOMAIN dedup /\ k \in DOMAIN dedup'
            /\ dedup'[k].recv_ns = h_fan'.recv_ns
            /\ dedup'[k].metrics = s
            /\ Len(out_chan) = ChanCap => out_chan' = out_chan
            /\ Len(out_chan) < ChanCap => out_chan' = Append(out_chan, out_chan'[Len(out_chan')])

\* An arrival whose signature is in the dedup map (delivered or lost) is a
\* duplicate: it is credited as one and forwards nothing.
PresentStep(s, tx) ==
    (/\ nfan' = nfan + 1
     /\ tx.key \in DOMAIN dedup
     /\ ~(filter_nonempty /\ ~is_rpc(s) /\ ~tx.matches)
     /\ h_fan'.source = s
     /\ Relay(s, tx)) =>
        /\ h_fan'.kind = "dup"
        /\ smetrics'[s].txs_duplicate = smetrics[s].txs_duplicate + 1
        /\ smetrics'[s].txs_first = smetrics[s].txs_first
        /\ out_chan' = out_chan
        /\ tx.key \in DOMAIN dedup'

-----------------------------------------------------------------------------
(* One pair record per arrival.                                              *)

\* The number of updates made to all pair records.
TotalPairUpdates == SumOf([pk \in DOMAIN pairs |-> pairs[pk].lead_count], DOMAIN pairs)

\* A step of the processing thread.
ArrivalStep == nrace' = nrace + 1

\* The arrival from a second source removes the entry of its key.
SecondRemoves ==
    (ArrivalStep /\ h_race'.kind \in {"win", "discarded"}) =>
        /\ h_race'.key \in DOMAIN arrivals
        /\ arrivals[h_race'.key].source # h_race'.source
        /\ h_race'.key \notin DOMAIN arrivals'

\* An arrival whose key has no entry, whatever was matched under the key
\* before, is inserted as a first arrival and touches no pair record.
AbsentIsNewFirst ==
    (ArrivalStep /\ h_race'.key \notin DOMAIN arrivals) =>
        /\ h_race'.kind = "first"
        /\ h_race'.key \in DOMAIN arrivals'
        /\ arrivals'[h_race'.key].source = h_race'.source
        /\ arrivals'[h_race'.key].recv_ns = h_race'.recv_ns
        /\ pairs' = pairs

\* A step updates at most one pair record, once.
OneUpdatePerStep ==
    ArrivalStep => TotalPairUpdates' =
        TotalPairUpdates + IF h_race'.kind = "win" THEN 1 ELSE 0

\* C38: the entry of the arrival map is removed on the arrival from a second
\* source, so a later arrival of the same (slot, shred_index), from a third
\* source or again from an earlier one, is inserted as a new first arrival
\* and not paired with the earlier ones; each arrival takes part in at most
\* one pair record: every update of a pair record uses up two arrivals of
\* which neither is held in the map afterwards.
C38_ArrivalInOnePair ==
    /\ [][SecondRemoves /\ AbsentIsNewFirst /\ OneUpdatePerStep]_vars
    /\ [](2 * TotalPairUpdates + Cardinality(DOMAIN arrivals) <= nrace)

\* Shred (42, 7) came from A and from B, which made one pair record; its
\* third arrival, from a third source, is held as a first arrival.
C38_Witness ==
    /\ nrace = 3
    /\ h_race.kind = "first" /\ h_race.source = SrcAB /\ h_race.key = <<42, 7>>
    /\ <<42, 7>> \in DOMAIN arrivals /\ arrivals[<<42, 7>>].source = SrcAB
    /\ DOMAIN pairs = {<<SrcA, SrcB>>}
    /\ pairs[<<SrcA, SrcB>>].lead_count = 1

-----------------------------------------------------------------------------
(* Lock order of the fan-in.                                                 *)

\* Thread t waits for a lock that thread u holds.
Waits(t, u) == lk_th[t].at = "want" /\ \E l \in lk_th[t].want : lk_owner[l] = u

WaitsFor(t) == {u \in LockThreads : Waits(t, u)}

\* The threads S waits for, directly or through other waiting threads.
RECURSIVE Blockers(_, _)
Blockers(S, n) ==
    IF n = 0 THEN S ELSE Blockers(S \cup UNION {WaitsFor(u) : u \in S}, n - 1)

\* No thread waits, through any chain of waiting threads, for itself.
NoWaitCycle ==
    \A t \in LockThreads : t \notin Blockers(WaitsFor(t), Cardinality(LockThreads))

Got(t, l) == lk_owner[l] # t /\ lk_owner'[l] = t

\* A relay thread gets a reservoir only from inside the entry of its
\* signature, holding that shard.
ReservoirUnderShard ==
    \A t \in RelayThreads : \A s \in RelayThreads :
        Got(t, Res(s)) => /\ lk_owner[Shard(ShardOf(lk_th[t].key))] = t
                          /\ lk_th[t].key \in DOMAIN lk_first

\* No thread gets a shard while it holds a reservoir; the eviction thread
\* and the reader hold one lock at a time.
NoShardUnderReservoir ==
    \A t \in LockThreads : \A i \in 0..(NumShards - 1) :
        Got(t, Shard(i)) => \A l \in Locks : lk_owner[l] # t

OneLockOutsideRelay ==
    \A t \in {"evict", "reader"} : Cardinality({l \in Locks : lk_owner[l] = t}) <= 1

\* C39: a relay thread takes a source's reservoir mutex while it holds a
\* shard lock of the dedup map, and no thread takes the two in the reverse
\* order; relay threads, the eviction thread and snapshot readers never
\* deadlock: in no reachable state does a thread wait for itself through a
\* chain of threads that each wait for a lock the next one holds.
C39_NoLockOrderInversion ==
    /\ [][ReservoirUnderShard /\ NoShardUnderReservoir]_vars
    /\ [](NoWaitCycle /\ OneLockOutsideRelay)

\* The relay thread of the baseline source holds the shard of signature 1
\* and the reservoir of source a, whose entry it found; the relay thread of
\* a and the eviction thread wait for a shard, the reader for the reservoir.
C39_Witness ==
    /\ lk_owner[Shard(ShardOf(1))] = "rpc" /\ lk_owner[Res("a")] = "rpc"
    /\ lk_th["rpc"].key = 1 /\ 1 \in DOMAIN lk_first /\ lk_first[1] = "a"
    /\ Waits("a", "rpc") /\ Waits("reader", "rpc")
    /\ lk_th["evict"].at = "want"

-----------------------------------------------------------------------------
(* The counters of a pair record.                                            *)

\* The pair record counts every update once, as a win of one of its sources,
\* and its reservoir has taken as many samples as updates were made.
PairCountsAgree(pk) ==
    LET pm == pairs[pk]
    IN  /\ pm.source_a = pk[1] /\ pm.source_b = pk[2]
        /\ pm.a_wins + pm.b_wins = pm.lead_count
        /\ pm.lead_count >= 1
        /\ pm.reservoir.len = Min(pm.lead_count, RESERVOIR_CAP)
        /\ pm.reservoir.pos = pm.lead_count % RESERVOIR_CAP

\* An update of a pair record credits the winner, which is one of the two
\* sources of the pair key, adds one to lead_count and pushes one sample.
PairUpdateStep ==
    (ArrivalStep /\ h_race'.kind = "win") =>
        \E pk \in h_race'.pair : \E w \in h_race'.winner : \E us \in h_race'.lead :
            LET old == IF pk \in DOMAIN pairs THEN pairs[pk]
                       ELSE [a_wins |-> 0, b_wins |-> 0, lead_count |-> 0,
                             reservoir |-> RaceReservoir_new]
                new == pairs'[pk]
            IN  /\ w \in {pk[1], pk[2]}
                /\ w \in {h_race'.source, arrivals[h_race'.key].source}
                /\ new.a_wins = old.a_wins + IF w = pk[1] THEN 1 ELSE 0
                /\ new.b_wins = old.b_wins + IF w = pk[2] THEN 1 ELSE 0
                /\ new.lead_count = old.lead_count + 1
                /\ new.reservoir = RaceReservoir_push(old.reservoir, us)
                /\ \A q \in DOMAIN pairs \ {pk} : pairs'[q] = pairs[q]

\* Nothing but an update changes a pair record.
PairsOtherwiseKept == ~(ArrivalStep /\ h_race'.kind = "win") => pairs' = pairs

\* C40: for every race pair record, after any sequence of processed
\* arrivals, a_wins + b_wins = lead_count = the number of samples pushed to
\* the pair's reservoir, and the winner credited on each update is one of
\* the two sources named in the pair key.
C40_PairCountsConsistent ==
    /\ [](\A pk \in DOMAIN pairs : PairCountsAgree(pk))
    /\ [][PairUpdateStep /\ PairsOtherwiseKept]_vars

\* The pair (A, B) was updated twice, once won by each source.
C40_Witness ==
    /\ <<SrcA, SrcB>> \in DOMAIN pairs
    /\ pairs[<<SrcA, SrcB>>].a_wins = 1
    /\ pairs[<<SrcA, SrcB>>].b_wins = 1
    /\ pairs[<<SrcA, SrcB>>].lead_count = 2
    /\ h_race.kind = "win" /\ h_race.winner = Some(SrcB)

====
